---------------------------- MODULE Spec2Model ----------------------------
(***************************************************************************)
(* FootageOrganizer: the organizer (organize_footage_links.py), the        *)
(* metadata CSV builder (create_metadata.py) and the transfer program      *)
(* (transfer_organized_footage.py), modelled as state machines.            *)
(*                                                                         *)
(*   SpecColors   : create_metadata.assign_colors_to_groups on a set of    *)
(*                  groups, run twice over the same set                    *)
(*   SpecTransfer : transfer_organized_footage.main                        *)
(*   Spec         : organize_footage_links.main followed by                *)
(*                  create_metadata.create_metadata_csv_from_txt           *)
(*   SpecResolver : the same two programs on a Footage_raw of one file     *)
(*   SpecPlaceholder : transfer_organized_footage.                         *)
(*                  update_placeholder_file_path applied repeatedly to one *)
(*                  placeholder file                                       *)
(*   SpecModes, SpecSidecar, SpecMetadata, SpecDelta, SpecParse,           *)
(*   SpecStabilized, SpecTools : parts of the programs on inputs of their  *)
(*                  own, each introduced where it is defined               *)
(***************************************************************************)
EXTENDS Integers, Sequences, FiniteSets, TLC

VARIABLES
    \* ---- create_metadata.assign_colors_to_groups ----
    groups,          \* the input set of group names
    results          \* the mappings returned by the runs made so far

colorVars == <<groups, results>>

VARIABLES
    \* ---- transfer_organized_footage.main ----
    args,                 \* [copy, verify_only]: the command-line flags
    dirs,                 \* [root, organized]: do the input directories exist
    disk,                 \* the media files on disk: path -> size
    disk0,                \* the media files on disk when the run started
    placeholders,         \* placeholder path -> its content
    placeholder_files,    \* find_placeholder_files(): the sorted list
    placeholder_file,     \* the loop variable of the analysis loop
    transfers,            \* (source_path, dest_path, txt_file) to transfer
    missing_files,        \* (original_path, placeholder_file) not found
    successful_transfers,
    failed_transfers,
    deleted_count,
    delete_errors,
    idx,                  \* position of the running loop
    pcT,                  \* the part of main() that runs next
    exit_code             \* the process exit code, NoExit while running

transferVars ==
    <<args, dirs, disk, disk0, placeholders, placeholder_files,
      placeholder_file, transfers, missing_files, successful_transfers,
      failed_transfers, deleted_count, delete_errors, idx, pcT, exit_code>>

VARIABLES
    \* ---- organize_footage_links.main, then create_metadata.main ----
    raw,               \* the media files under Footage_raw
    time_adjustments,  \* load_group_time_adjustments(): group -> delta
    oargs,             \* [include_photos, simulate, dry_run]: the flags
    odirs,             \* the directories of the project that exist
    exit_o,            \* exit code of the organizer, NoExit until it ends
    exit_m,            \* exit code of create_metadata, NoExit until it ends
    all_files,         \* the list main() iterates over
    out,               \* Footage_metadata_sorted: placeholder path -> content
    emitted,           \* per processed file: the bucket and name decided
    created,
    failed,
    pcO,               \* the part of the two programs that runs next
    csv,               \* the rows of Footage/metadata.csv, NoCsv if absent
    txt_files,         \* create_metadata: the placeholders still to parse
    metadata_rows      \* create_metadata: the rows built so far

\* the variables of the loop of create_metadata_csv_from_txt
metaVars == <<txt_files, metadata_rows>>

organizerVars ==
    <<raw, time_adjustments, oargs, odirs, exit_o, exit_m, all_files, out,
      emitted, created, failed, pcO, csv, metaVars>>

VARIABLES
    \* ---- update_placeholder_file_path on one placeholder file ----
    doc,       \* the content of the placeholder file
    doc0,      \* its content before the first update
    applied    \* the new_video_path of each update made so far

docVars == <<doc, doc0, applied>>

VARIABLES
    \* ---- the external programs file_date runs for one file ----
    rfile,     \* the file whose date is being resolved, NoFile if none
    hung,      \* the external programs that never return
    running,   \* the invocation file_date waits for, NoCall if none
    pcR        \* the position of file_date: "idle", "start", "tool", "done"

toolVars == <<rfile, hung, running, pcR>>

VARIABLES
    \* ---- one call of parse_time_delta ----
    delta_in, \* the argument, as the sequence of its characters
    parse_result     \* what the call has done, NotParsed before it

parseVars == <<delta_in, parse_result>>

VARIABLES
    \* ---- a folder of Footage_raw that holds stabilized files ----
    tree,      \* the files of the folder
    listing,   \* what list_media_files has yielded, in order
    resolved,  \* per listed file, in order: its date and time
    pcS        \* "idle", "list", "resolve", "done"

stabVars == <<tree, listing, resolved, pcS>>

vars ==
    <<colorVars, transferVars, organizerVars, docVars, toolVars, parseVars,
      stabVars>>

\* what each program leaves alone
notColorVars ==
    <<transferVars, organizerVars, docVars, toolVars, parseVars, stabVars>>
notTransferVars ==
    <<colorVars, organizerVars, docVars, toolVars, parseVars, stabVars>>
notOrganizerVars == <<transferVars, docVars, toolVars, parseVars, stabVars>>
notDocVars ==
    <<colorVars, transferVars, organizerVars, toolVars, parseVars, stabVars>>
notToolVars ==
    <<colorVars, transferVars, organizerVars, docVars, parseVars, stabVars>>
notParseVars ==
    <<colorVars, transferVars, organizerVars, docVars, toolVars, stabVars>>
notStabVars ==
    <<colorVars, transferVars, docVars, toolVars, parseVars>>

\* no folder is being listed
StabIdle ==
    /\ tree = {}
    /\ listing = <<>>
    /\ resolved = <<>>
    /\ pcS = "idle"

NotParsed == [called |-> FALSE, raised |-> FALSE, days |-> 0, seconds |-> 0]

\* parse_time_delta is not being called
ParseIdle ==
    /\ delta_in = <<>>
    /\ parse_result = NotParsed

\* subprocess: no timeout argument
NoTimeout == 0

NoCall == [tool |-> "", timeout |-> NoTimeout, n |-> 0]

NoFile == [dirs |-> <<>>]

\* no date is being resolved
ToolIdle ==
    /\ rfile = NoFile
    /\ hung = {}
    /\ running = NoCall
    /\ pcR = "idle"

\* no placeholder file is being updated
NoDoc == [enc |-> "none", data |-> <<>>, lines |-> <<>>]

DocIdle ==
    /\ doc = NoDoc
    /\ doc0 = NoDoc
    /\ applied = <<>>

-----------------------------------------------------------------------------
(* Generic helpers                                                         *)

Range(s) == {s[i] : i \in DOMAIN s}

IndexOf(s, x) == CHOOSE i \in DOMAIN s : s[i] = x

Reverse(s) == [i \in 1..Len(s) |-> s[Len(s) + 1 - i]]

Rotate(s, k) ==
    IF Len(s) = 0 THEN s
    ELSE [i \in 1..Len(s) |-> s[((i - 1 + k) % Len(s)) + 1]]

-----------------------------------------------------------------------------
(* create_metadata.py : palette tables                                     *)

VALID_COLORS ==
    <<"Blue", "Green", "Purple", "Cyan", "Yellow", "Orange", "Pink",
      "Fuchsia", "Violet", "Teal", "Lavender", "Rose", "Magenta", "Brown",
      "Olive", "Tan", "Sand", "Red">>

KnownSources == <<"CANON", "CELL-BLAIN", "DRONE">>

SOURCE_COLOR_FAMILIES ==
    [s \in Range(KnownSources) |->
        CASE s = "DRONE"      -> <<"Green", "Olive">>
          [] s = "CELL-BLAIN" -> <<"Orange", "Tan">>
          [] s = "CANON"      -> <<"Blue", "Cyan">>]

DYNAMIC_COLORS ==
    <<"Purple", "Violet", "Pink", "Rose", "Fuchsia", "Yellow", "Sand",
      "Brown", "Lavender", "Teal", "Magenta", "Red">>

\* the reserve pair used once the dynamic pool is empty
ReservePair == <<"Purple", "Violet">>

LastResortMut == "Grey"

\* the colour given to a group when every palette colour is in use
LastResort == "Sand"

-----------------------------------------------------------------------------
(* Group names.  A group name is the string source + "_" + suffix; the     *)
(* record [source, suffix] stands for it, and suffix "" stands for a name  *)
(* with no underscore at all (then the name is the source itself).         *)

\* suffixes in the order Python's sorted() gives the names of one source
SuffixOrder == <<"", "709", "LOG">>

SuffixRank(x) == IndexOf(SuffixOrder, x)

Group(src, sfx) == [source |-> src, suffix |-> sfx]

\* group.rsplit('_', 1)[0], or the group itself when it has no underscore
SourceOf(group) == group.source

-----------------------------------------------------------------------------
(* create_metadata.assign_colors_to_groups                                 *)

NoColor == "none"

\* the running state of one call: color_assignment, used_colors, dynamic_pool
StartState == [ca |-> <<>>, used |-> {}, pool |-> DYNAMIC_COLORS]

\* used_colors holds palette colours only (evaluating this at each loop step
\* also keeps the running state a value rather than a pending expression)
PaletteOnly(st) == st.used \subseteq Range(VALID_COLORS)

\* sources_groups.keys(): the sources in the order the set iteration meets them
RECURSIVE SourcesSeenFrom(_, _, _)
SourcesSeenFrom(order, i, seen) ==
    IF i > Len(order) THEN seen
    ELSE SourcesSeenFrom(order, i + 1,
            IF SourceOf(order[i]) \in Range(seen) THEN seen
            ELSE Append(seen, SourceOf(order[i])))

SourcesSeen(order) == SourcesSeenFrom(order, 1, <<>>)

\* sorted(source_groups): the groups of one source, sorted by name
SortedGroups(src, gs) ==
    LET sfxs == SelectSeq(SuffixOrder, LAMBDA x : Group(src, x) \in gs)
    IN [i \in 1..Len(sfxs) |-> Group(src, sfxs[i])]

\* dynamic_pool.remove(color)
RemoveColor(pool, c) == SelectSeq(pool, LAMBDA x : x # c)

FirstAnyColor(used) == VALID_COLORS[1]

\* for alt_color in VALID_COLORS: if alt_color not in used_colors: ... break
FirstUnused(used) ==
    LET free == {i \in 1..Len(VALID_COLORS) : VALID_COLORS[i] \notin used}
    IN IF free = {} THEN NoColor
       ELSE VALID_COLORS[CHOOSE i \in free : \A j \in free : i <= j]

Give(st, g, c) ==
    [ca |-> (g :> c) @@ st.ca, used |-> st.used \cup {c}, pool |-> st.pool]

\* the alternative-colour search of the unknown-source loop; a group for
\* which no colour is free is left without one
AssignAlt(st, g) ==
    LET c == FirstUnused(st.used)
    IN IF c = NoColor THEN st ELSE Give(st, g, c)

\* the inner loop of a source of SOURCE_COLOR_FAMILIES, from its i-th group
RECURSIVE KnownGroups(_, _, _, _)
KnownGroups(st, sg, colors, i) ==
    IF PaletteOnly(st) /\ i > Len(sg) THEN st
    ELSE KnownGroups(
            IF i <= Len(colors) /\ colors[i] \notin st.used
            THEN [ca   |-> (sg[i] :> colors[i]) @@ st.ca,
                  used |-> st.used \cup {colors[i]},
                  pool |-> RemoveColor(st.pool, colors[i])]
            ELSE st,
            sg, colors, i + 1)

\* the same iteration over the groups in descending order
KnownSourceDescending(st, src, gs) ==
    LET sg == SortedGroups(src, gs)
    IN  KnownGroups(st, [i \in 1..Len(sg) |-> sg[Len(sg) + 1 - i]],
                    SOURCE_COLOR_FAMILIES[src], 1)

\* one iteration of the first loop, for a source of SOURCE_COLOR_FAMILIES
KnownSource(st, src, gs) ==
    KnownGroups(st, SortedGroups(src, gs), SOURCE_COLOR_FAMILIES[src], 1)

\* the inner loop of a source with no family, from its i-th group
RECURSIVE UnknownGroups(_, _, _, _)
UnknownGroups(st, sg, cfs, i) ==
    IF PaletteOnly(st) /\ i > Len(sg) THEN st
    ELSE UnknownGroups(
            IF i <= Len(cfs) /\ cfs[i] \notin st.used
            THEN Give(st, sg[i], cfs[i])
            ELSE AssignAlt(st, sg[i]),
            sg, cfs, i + 1)

\* colors_for_source: the next two colours of the pool, its last one, or the
\* reserve pair
ColorsForSource(pool) ==
    IF Len(pool) >= 2 THEN SubSeq(pool, 1, 2)
    ELSE IF Len(pool) = 1 THEN <<pool[1]>>
    ELSE ReservePair

\* one iteration of the second loop, for a source with no family
UnknownSource(st, src, gs) ==
    UnknownGroups(
        [ca |-> st.ca, used |-> st.used,
         pool |-> IF Len(st.pool) >= 2 THEN SubSeq(st.pool, 3, Len(st.pool))
                  ELSE <<>>],
        SortedGroups(src, gs), ColorsForSource(st.pool), 1)

\* the last loop: every group still without a colour gets the first unused
\* palette colour, or the last-resort colour
RECURSIVE FinalLoop(_, _, _)
FinalLoop(st, order, i) ==
    IF PaletteOnly(st) /\ i > Len(order) THEN st
    ELSE FinalLoop(
            IF order[i] \in DOMAIN st.ca THEN st
            ELSE IF FirstUnused(st.used) # NoColor
                 THEN Give(st, order[i], FirstUnused(st.used))
                 ELSE [ca |-> (order[i] :> LastResort) @@ st.ca,
                       used |-> st.used, pool |-> st.pool],
            order, i + 1)

RECURSIVE KnownLoop(_, _, _, _)
KnownLoop(st, srcs, gs, i) ==
    IF PaletteOnly(st) /\ i > Len(srcs) THEN st
    ELSE KnownLoop(IF srcs[i] \in DOMAIN SOURCE_COLOR_FAMILIES
                   THEN KnownSource(st, srcs[i], gs) ELSE st,
                   srcs, gs, i + 1)

RECURSIVE UnknownLoop(_, _, _, _)
UnknownLoop(st, srcs, gs, i) ==
    IF PaletteOnly(st) /\ i > Len(srcs) THEN st
    ELSE UnknownLoop(IF srcs[i] \notin DOMAIN SOURCE_COLOR_FAMILIES
                     THEN UnknownSource(st, srcs[i], gs) ELSE st,
                     srcs, gs, i + 1)

\* assign_colors_to_groups(groups), `order` being the order in which the
\* iteration of the Python set `groups` yields its elements
assign_colors_to_groups(order) ==
    LET gs   == Range(order)
        srcs == SourcesSeen(order)
    IN FinalLoop(
          UnknownLoop(KnownLoop(StartState, srcs, gs, 1), srcs, gs, 1),
          order, 1).ca

-----------------------------------------------------------------------------
(* transfer_organized_footage.py : paths, placeholders, file operations    *)

NoPath == [dir |-> "none", stem |-> "", tags |-> <<>>, ext |-> ""]

NoExit == -1

\* a media file path: directory, stem, the _NNN counters appended to the
\* stem, extension
MediaPath(d, st, e) == [dir |-> d, stem |-> st, tags |-> <<>>, ext |-> e]

\* a placeholder of Footage_metadata_sorted: relative stem and .json / .txt
PlaceholderPath(st, enc) == [stem |-> st, enc |-> enc]

\* the state of the transfer program when it is not the program being run
TransferIdle ==
    /\ args = [copy |-> TRUE, verify_only |-> TRUE]
    /\ dirs = [root |-> FALSE, organized |-> FALSE]
    /\ disk = <<>>
    /\ disk0 = <<>>
    /\ placeholders = <<>>
    /\ placeholder_files = <<>>
    /\ placeholder_file = PlaceholderPath("", "")
    /\ transfers = <<>>
    /\ missing_files = <<>>
    /\ successful_transfers = <<>>
    /\ failed_transfers = <<>>
    /\ deleted_count = 0
    /\ delete_errors = 0
    /\ idx = 0
    /\ pcT = "idle"
    /\ exit_code = NoExit

\* Footage/metadata.csv before create_metadata has written it
NoCsv == [written |-> FALSE, rows |-> <<>>]

\* the state of the organizer and of create_metadata when neither is run
OrganizerIdle ==
    /\ raw = {}
    /\ time_adjustments = <<>>
    /\ oargs = [include_photos |-> FALSE, simulate |-> FALSE,
                dry_run |-> FALSE]
    /\ odirs = {}
    /\ exit_o = NoExit
    /\ exit_m = NoExit
    /\ all_files = <<>>
    /\ out = <<>>
    /\ emitted = <<>>
    /\ created = 0
    /\ failed = 0
    /\ pcO = "idle"
    /\ csv = NoCsv
    /\ txt_files = <<>>
    /\ metadata_rows = <<>>

\* extract_original_path_from_placeholder: the first "Original path: " line
\* of a .txt, placeholder_info.original_path of a .json; NoPath is None
extract_original_path_from_placeholder(content) == content.orig

\* update_placeholder_file_path: the .json gets original_path and
\* transfer_info.new_location set; the .txt gets its first "Original path: "
\* line (if it has one) replaced and a transfer note appended
update_placeholder_file_path(content, new_video_path) ==
    IF content.enc = "json"
    THEN [content EXCEPT !.orig = new_video_path, !.notes = <<new_video_path>>]
    ELSE [content EXCEPT
            !.orig = IF content.orig = NoPath THEN NoPath ELSE new_video_path,
            !.notes = Append(content.notes, new_video_path)]

VerifyAlwaysTrue(files, source, dest) == TRUE

\* verify_file_integrity(source, dest): both files stat-able, equal sizes
verify_file_integrity(files, source, dest) ==
    /\ source \in DOMAIN files
    /\ dest \in DOMAIN files
    /\ files[source] = files[dest]

\* output_dir / relative_path.with_suffix(original_path.suffix)
DestPath(ph, original_path) == MediaPath("Footage", ph.stem, original_path.ext)

\* the renaming loop of the transfer loop: while dest_path.exists(), the
\* counter is appended to the stem of the current dest_path
\* a transfer loop that copies onto the computed destination as it is
KeepDest(files, dest_path, counter) == dest_path

RECURSIVE UniqueDest(_, _, _)
UniqueDest(files, dest_path, counter) ==
    IF dest_path \notin DOMAIN files THEN dest_path
    ELSE UniqueDest(files,
                    [dest_path EXCEPT !.tags = Append(@, counter)],
                    counter + 1)

\* size of a file that a failed copy left half written
PartialSize == 0

\* what shutil.copy2 and the check after it can do
CopyOutcomes == {"ok", "mismatch", "error", "error_partial"}

Remove(files, path) == [q \in DOMAIN files \ {path} |-> files[q]]

copy_keeps_failed_copy(files, source, dest, outcome) ==
    IF source \notin DOMAIN files \/ outcome = "error"
    THEN [ok |-> FALSE, disk |-> files]
    ELSE IF outcome = "error_partial"
    THEN [ok |-> FALSE, disk |-> (dest :> PartialSize) @@ files]
    ELSE LET written == (dest :> IF outcome = "ok" THEN files[source]
                                 ELSE files[source] + 1) @@ files
         IN [ok |-> verify_file_integrity(written, source, dest),
             disk |-> written]

\* copy_with_verification(source, dest): the returned flag and the disk it
\* leaves.  copy2 raises (leaving nothing or a partial file), or writes dest
\* with the size of the source or with another size; a copy that fails the
\* size check is removed.
copy_with_verification(files, source, dest, outcome) ==
    IF source \notin DOMAIN files \/ outcome = "error"
    THEN [ok |-> FALSE, disk |-> files]
    ELSE IF outcome = "error_partial"
    THEN [ok |-> FALSE, disk |-> (dest :> PartialSize) @@ files]
    ELSE LET written == (dest :> IF outcome = "ok" THEN files[source]
                                 ELSE files[source] + 1) @@ files
         IN IF verify_file_integrity(written, source, dest)
            THEN [ok |-> TRUE, disk |-> written]
            ELSE [ok |-> FALSE, disk |-> Remove(written, dest)]

-----------------------------------------------------------------------------
(* transfer_organized_footage.main                                         *)

\* the originals a placeholder may name, and the file already in Footage/
RawA  == MediaPath("Footage_raw", "clipA", ".mp4")
RawB  == MediaPath("Footage_raw", "clipB", ".mp4")
FootA == MediaPath("Footage", "a", ".mp4")

SizeOf(path) == IF path = RawB THEN 2 ELSE 1

\* the placeholders Footage_metadata_sorted may hold, in sorted() order
PlaceholderUniverse ==
    <<PlaceholderPath("a", "json"), PlaceholderPath("a", "txt"),
      PlaceholderPath("b", "json"), PlaceholderPath("b", "txt")>>

\* how many placeholders a run holds at most
MaxPlaceholders == 3

PlaceholderContent(ph, orig) == [enc |-> ph.enc, orig |-> orig, notes |-> <<>>]

TransferInit ==
    /\ groups = {} /\ results = <<>>
    /\ OrganizerIdle
    /\ DocIdle
    /\ ToolIdle
    /\ ParseIdle
    /\ StabIdle
    /\ args \in [copy : BOOLEAN, verify_only : BOOLEAN]
    /\ dirs \in {[root |-> TRUE, organized |-> TRUE],
                 [root |-> TRUE, organized |-> FALSE],
                 [root |-> FALSE, organized |-> FALSE]}
    /\ \E present \in SUBSET {RawA, RawB, FootA} :
          /\ disk = [q \in present |-> SizeOf(q)]
          /\ disk0 = disk
    /\ \E chosen \in SUBSET Range(PlaceholderUniverse) :
          /\ Cardinality(chosen) <= MaxPlaceholders
          /\ dirs.organized \/ chosen = {}
          /\ placeholder_files =
                SelectSeq(PlaceholderUniverse, LAMBDA ph : ph \in chosen)
          /\ \E origs \in [chosen -> {RawA, RawB, FootA, NoPath}] :
                placeholders =
                    [ph \in chosen |-> PlaceholderContent(ph, origs[ph])]
    /\ placeholder_file = PlaceholderPath("", "")
    /\ transfers = <<>>
    /\ missing_files = <<>>
    /\ successful_transfers = <<>>
    /\ failed_transfers = <<>>
    /\ deleted_count = 0
    /\ delete_errors = 0
    /\ idx = 0
    /\ pcT = "start"
    /\ exit_code = NoExit

Exit(code) == pcT' = "done" /\ exit_code' = code

\* validation of the project structure and the search for placeholders
Validate ==
    /\ UNCHANGED notTransferVars
    /\ pcT = "start"
    /\ IF ~dirs.root \/ ~dirs.organized THEN Exit(1)
       ELSE IF placeholder_files = <<>> THEN Exit(0)
       ELSE pcT' = "analyse" /\ exit_code' = exit_code
    /\ idx' = 1
    /\ UNCHANGED <<args, dirs, disk, disk0, placeholders, placeholder_files,
                   placeholder_file, transfers, missing_files,
                   successful_transfers, failed_transfers, deleted_count,
                   delete_errors>>

\* one iteration of the analysis loop
AnalyseStep ==
    /\ UNCHANGED notTransferVars
    /\ pcT = "analyse"
    /\ idx <= Len(placeholder_files)
    /\ placeholder_file' = placeholder_files[idx]
    /\ LET original_path == extract_original_path_from_placeholder(
                                placeholders[placeholder_files[idx]])
       IN IF original_path = NoPath
          THEN UNCHANGED <<transfers, missing_files>>
          ELSE IF original_path \notin DOMAIN disk
          THEN /\ missing_files' = Append(missing_files,
                     <<original_path, placeholder_files[idx]>>)
               /\ UNCHANGED transfers
          ELSE /\ transfers' = Append(transfers,
                     [source   |-> original_path,
                      dest     |-> DestPath(placeholder_files[idx], original_path),
                      txt_file |-> placeholder_files[idx]])
               /\ UNCHANGED missing_files
    /\ idx' = idx + 1
    /\ UNCHANGED <<args, dirs, disk, disk0, placeholders, placeholder_files,
                   successful_transfers, failed_transfers, deleted_count,
                   delete_errors, pcT, exit_code>>

\* the analysis report, the verify-only exit and the confirmation prompt
AfterAnalysis ==
    /\ UNCHANGED notTransferVars
    /\ pcT = "analyse"
    /\ idx > Len(placeholder_files)
    /\ IF transfers = <<>> THEN Exit(0)
       ELSE IF args.verify_only THEN Exit(0)
       ELSE IF ~args.copy
       THEN \E response \in {"oui", "non"} :
               IF response = "oui"
               THEN pcT' = "transfer" /\ exit_code' = exit_code
               ELSE Exit(0)
       ELSE pcT' = "transfer" /\ exit_code' = exit_code
    /\ idx' = 1
    /\ UNCHANGED <<args, dirs, disk, disk0, placeholders, placeholder_files,
                   placeholder_file, transfers, missing_files,
                   successful_transfers, failed_transfers, deleted_count,
                   delete_errors>>

\* one iteration of the transfer loop
TransferStep ==
    /\ UNCHANGED notTransferVars
    /\ pcT = "transfer"
    /\ idx <= Len(transfers)
    /\ \E outcome \in CopyOutcomes :
          LET t         == transfers[idx]
              dest_path == UniqueDest(disk, t.dest, 1)
              copied    == copy_with_verification(disk, t.source, dest_path,
                                                  outcome)
          IN /\ disk' = copied.disk
             /\ IF copied.ok
                THEN /\ successful_transfers' = Append(successful_transfers,
                           [source |-> t.source, dest |-> dest_path,
                            txt_file |-> placeholder_file, record |-> idx])
                     /\ placeholders' =
                           [placeholders EXCEPT ![placeholder_file] =
                               update_placeholder_file_path(@, dest_path)]
                     /\ UNCHANGED failed_transfers
                ELSE /\ failed_transfers' = Append(failed_transfers,
                           [source |-> t.source, dest |-> dest_path,
                            txt_file |-> t.txt_file, record |-> idx])
                     /\ UNCHANGED <<successful_transfers, placeholders>>
    /\ idx' = idx + 1
    /\ UNCHANGED <<args, dirs, disk0, placeholder_files, placeholder_file,
                   transfers, missing_files, deleted_count, delete_errors,
                   pcT, exit_code>>

DeletionAllowedInAnyMode ==
    successful_transfers # <<>> /\ failed_transfers = <<>>

DeletionAllowedDespiteFailures ==
    ~args.copy /\ successful_transfers # <<>>

\* the transfer report and the decision to delete the originals
DeletionAllowed ==
    ~args.copy /\ successful_transfers # <<>> /\ failed_transfers = <<>>

AfterTransfer ==
    /\ UNCHANGED notTransferVars
    /\ pcT = "transfer"
    /\ idx > Len(transfers)
    /\ pcT' = IF DeletionAllowed THEN "delete" ELSE "final"
    /\ idx' = 1
    /\ UNCHANGED <<args, dirs, disk, disk0, placeholders, placeholder_files,
                   placeholder_file, transfers, missing_files,
                   successful_transfers, failed_transfers, deleted_count,
                   delete_errors, exit_code>>

\* one iteration of the deletion loop; unlink may raise
DeleteStep ==
    /\ UNCHANGED notTransferVars
    /\ pcT = "delete"
    /\ idx <= Len(successful_transfers)
    /\ LET t == successful_transfers[idx]
       IN IF verify_file_integrity(disk, t.dest, t.source)
          THEN \E unlinked \in BOOLEAN :
                  IF unlinked
                  THEN /\ disk' = Remove(disk, t.source)
                       /\ deleted_count' = deleted_count + 1
                       /\ UNCHANGED delete_errors
                  ELSE /\ delete_errors' = delete_errors + 1
                       /\ UNCHANGED <<disk, deleted_count>>
          ELSE /\ delete_errors' = delete_errors + 1
               /\ UNCHANGED <<disk, deleted_count>>
    /\ idx' = idx + 1
    /\ UNCHANGED <<args, dirs, disk0, placeholders, placeholder_files,
                   placeholder_file, transfers, missing_files,
                   successful_transfers, failed_transfers, pcT, exit_code>>

AfterDelete ==
    /\ UNCHANGED notTransferVars
    /\ pcT = "delete"
    /\ idx > Len(successful_transfers)
    /\ pcT' = "final"
    /\ UNCHANGED <<args, dirs, disk, disk0, placeholders, placeholder_files,
                   placeholder_file, transfers, missing_files,
                   successful_transfers, failed_transfers, deleted_count,
                   delete_errors, idx, exit_code>>

FinishFailsOnMissing ==
    /\ UNCHANGED notTransferVars
    /\ pcT = "final"
    /\ Exit(IF failed_transfers # <<>> \/ missing_files # <<>> THEN 1 ELSE 0)
    /\ UNCHANGED <<args, dirs, disk, disk0, placeholders, placeholder_files,
                   placeholder_file, transfers, missing_files,
                   successful_transfers, failed_transfers, deleted_count,
                   delete_errors, idx>>

\* the final report and the exit code
Finish ==
    /\ UNCHANGED notTransferVars
    /\ pcT = "final"
    /\ Exit(IF failed_transfers # <<>> THEN 1 ELSE 0)
    /\ UNCHANGED <<args, dirs, disk, disk0, placeholders, placeholder_files,
                   placeholder_file, transfers, missing_files,
                   successful_transfers, failed_transfers, deleted_count,
                   delete_errors, idx>>

TransferNext ==
    \/ Validate
    \/ AnalyseStep
    \/ AfterAnalysis
    \/ TransferStep
    \/ AfterTransfer
    \/ DeleteStep
    \/ AfterDelete
    \/ Finish

SpecTransfer == TransferInit /\ [][TransferNext]_vars

-----------------------------------------------------------------------------
(* SpecColors: the inputs of assign_colors_to_groups and two runs over    *)
(* the same set                                                            *)

\* source tags with no colour family
UnknownSources ==
    <<"GOPRO", "CELL-JO", "CELL-WALTZ", "AVATA", "SONY", "OSMO", "NIKON",
      "INSTA360", "ROOT">>

\* how many sources without a family a run may hold
NumUnknown == 7

\* how far the set iteration order is rotated from the sorted order
MaxRotation == 2

AllSources == KnownSources \o UnknownSources

AllGroupsSeq ==
    [i \in 1..(Len(AllSources) * Len(SuffixOrder)) |->
        Group(AllSources[((i - 1) \div Len(SuffixOrder)) + 1],
              SuffixOrder[((i - 1) % Len(SuffixOrder)) + 1])]

KnownSuffixSets == {{}, {"709"}, {"LOG"}, {"709", "LOG"}, {"", "709", "LOG"}}

UnknownSuffixSets == {{"709"}, {"709", "LOG"}, {"", "709", "LOG"}}

\* the groups of a run: each known source with its own suffixes, the first
\* unknown source with the suffixes c0 and n - 1 further ones with c1
GroupsOf(kn, n, c0, c1) ==
    {g \in Range(AllGroupsSeq) :
        IF g.source \in Range(KnownSources)
        THEN g.suffix \in kn[g.source]
        ELSE /\ IndexOf(UnknownSources, g.source) <= n
             /\ g.suffix \in (IF IndexOf(UnknownSources, g.source) = 1
                              THEN c0 ELSE c1)}

InputGroupSets ==
    {GroupsOf(kn, n, c0, c1) :
        kn \in [Range(KnownSources) -> KnownSuffixSets],
        n \in 0..(IF NumUnknown < Len(UnknownSources) THEN NumUnknown
                  ELSE Len(UnknownSources)),
        c0 \in UnknownSuffixSets, c1 \in UnknownSuffixSets}

\* the orders in which iterating the set may yield its elements (the order of
\* a Python set of strings changes from one interpreter run to the next)
IterOrders(gs) ==
    LET c == SelectSeq(AllGroupsSeq, LAMBDA g : g \in gs)
    IN {Rotate(c, k) : k \in 0..MaxRotation}
       \cup {Reverse(Rotate(c, k)) : k \in 0..MaxRotation}

ColorsInit ==
    /\ groups \in InputGroupSets
    /\ results = <<>>
    /\ TransferIdle
    /\ OrganizerIdle
    /\ DocIdle
    /\ ToolIdle
    /\ ParseIdle
    /\ StabIdle

\* one call of assign_colors_to_groups(groups)
AssignColors ==
    /\ Len(results) < 2
    /\ \E order \in IterOrders(groups) :
          results' = Append(results, assign_colors_to_groups(order))
    /\ UNCHANGED <<groups, notColorVars>>

ColorsNext == AssignColors

SpecColors == ColorsInit /\ [][ColorsNext]_vars

-----------------------------------------------------------------------------
(* organize_footage_links.py : datetime values                             *)
(* A datetime is [ord, sec]: the proleptic Gregorian ordinal of its date   *)
(* (0001-01-01 is day 1, as datetime.toordinal) and the second of its day. *)
(* A date is <<year, month, day>>.                                         *)

DAYS_IN_MONTH == <<31, 28, 31, 30, 31, 30, 31, 31, 30, 31, 30, 31>>

DAYS_BEFORE_MONTH == <<0, 31, 59, 90, 120, 151, 181, 212, 243, 273, 304, 334>>

IsLeap(y) == y % 4 = 0 /\ (y % 100 # 0 \/ y % 400 = 0)

DaysInMonth(y, m) == IF m = 2 /\ IsLeap(y) THEN 29 ELSE DAYS_IN_MONTH[m]

\* datetime(y, m, d).toordinal()
ToOrdinal(y, m, d) ==
    (y - 1) * 365 + (y - 1) \div 4 - (y - 1) \div 100 + (y - 1) \div 400
    + DAYS_BEFORE_MONTH[m] + (IF m > 2 /\ IsLeap(y) THEN 1 ELSE 0) + d

\* date.fromordinal(n): the <<year, month, day>> of an ordinal
FromOrdinal(n) ==
    LET r400 == (n - 1) % 146097
        n100 == r400 \div 36524
        r100 == r400 % 36524
        n4   == r100 \div 1461
        r4   == r100 % 1461
        n1   == r4 \div 365
        doy  == r4 % 365
        year == ((n - 1) \div 146097) * 400 + n100 * 100 + n4 * 4 + n1 + 1
    IN  IF n1 = 4 \/ n100 = 4
        THEN <<year - 1, 12, 31>>
        ELSE LET leap == n1 = 3 /\ (n4 # 24 \/ n100 = 3)
                 m0   == (doy + 50) \div 32
                 p0   == DAYS_BEFORE_MONTH[m0]
                            + (IF m0 > 2 /\ leap THEN 1 ELSE 0)
                 mm   == IF p0 > doy THEN m0 - 1 ELSE m0
                 pp   == IF p0 > doy
                         THEN p0 - (DAYS_IN_MONTH[mm]
                                    + (IF mm = 2 /\ leap THEN 1 ELSE 0))
                         ELSE p0
             IN  <<year, mm, doy - pp + 1>>

\* None where a datetime is expected
NoDT == [ord |-> 0, sec |-> 0]

\* None where a date is expected
NoDate == <<0, 0, 0>>

\* datetime(y, m, d, h, mi, s); NoDT stands for the ValueError it raises
DateTime(y, m, d, h, mi, s) ==
    IF /\ y \in 1..9999 /\ m \in 1..12
       /\ d >= 1 /\ h \in 0..23 /\ mi \in 0..59 /\ s \in 0..59
       /\ d <= DaysInMonth(y, m)
    THEN [ord |-> ToOrdinal(y, m, d), sec |-> h * 3600 + mi * 60 + s]
    ELSE NoDT

\* dt + timedelta(days=days, seconds=seconds)
AddDelta(dt, days, seconds) ==
    LET total == dt.sec + seconds
    IN  [ord |-> dt.ord + days + total \div 86400, sec |-> total % 86400]

\* (a - b).total_seconds()
SecondsBetween(a, b) == (a.ord - b.ord) * 86400 + (a.sec - b.sec)

Abs(n) == IF n < 0 THEN -n ELSE n

\* dt.date(), dt.year, and <<dt.hour, dt.minute, dt.second>>
DateOf(dt) == FromOrdinal(dt.ord)

YearOf(dt) == FromOrdinal(dt.ord)[1]

ClockOf(dt) == <<dt.sec \div 3600, (dt.sec % 3600) \div 60, dt.sec % 60>>

\* date.weekday(): Monday is 0
Weekday(ordinal) == (ordinal + 6) % 7

\* the ordinal of the k-th Sunday of a month
NthSunday(y, m, k) ==
    LET first == ToOrdinal(y, m, 1)
    IN  first + ((6 - Weekday(first)) % 7) + 7 * (k - 1)

MontrealOffsetNoDst(utc) == -5 * 3600

\* zoneinfo America/Montreal (years from 2007 on): daylight time runs from
\* the second Sunday of March 07:00 UTC to the first Sunday of November
\* 06:00 UTC; utcoffset is -4 h inside, -5 h outside
MontrealOffset(utc) ==
    LET y      == YearOf(utc)
        start  == [ord |-> NthSunday(y, 3, 2), sec |-> 7 * 3600]
        finish == [ord |-> NthSunday(y, 11, 1), sec |-> 6 * 3600]
    IN  IF SecondsBetween(utc, start) >= 0 /\ SecondsBetween(utc, finish) < 0
        THEN -4 * 3600
        ELSE -5 * 3600

\* dt_metadata_utc.astimezone(tz).replace(tzinfo=None)
AsTimezone(utc) == AddDelta(utc, 0, MontrealOffset(utc))

-----------------------------------------------------------------------------
(* organize_footage_links.py : per-group time adjustments                  *)
(* A delta string is the sequence of its 16 characters.                    *)

DigitChars == <<"0", "1", "2", "3", "4", "5", "6", "7", "8", "9">>

DigitOf(c) == (CHOOSE i \in 1..10 : DigitChars[i] = c) - 1

\* int(s) of a string of decimal digits
RECURSIVE ToInt(_)
ToInt(cs) ==
    IF cs = <<>> THEN 0
    ELSE 10 * ToInt(SubSeq(cs, 1, Len(cs) - 1)) + DigitOf(cs[Len(cs)])

\* parse_time_delta raises ValueError: the string has not 16 characters, or
\* int() rejects one of the six fields (the strings of the model are made of
\* digits, a sign, "_" and letters)
parse_time_delta_raises(delta_str) ==
    \/ Len(delta_str) # 16
    \/ \E i \in (2..9) \cup (11..16) :
          \A k \in DOMAIN DigitChars : DigitChars[k] # delta_str[i]

\* parse_time_delta: <<total_days, total_seconds>>
parse_time_delta(delta_str) ==
    LET sign   == IF delta_str[1] = "+" THEN 1 ELSE -1
        year   == ToInt(SubSeq(delta_str, 2, 5))
        month  == ToInt(SubSeq(delta_str, 6, 7))
        day    == ToInt(SubSeq(delta_str, 8, 9))
        hour   == ToInt(SubSeq(delta_str, 11, 12))
        minute == ToInt(SubSeq(delta_str, 13, 14))
        second == ToInt(SubSeq(delta_str, 15, 16))
    IN  <<sign * (year * 365 + month * 30 + day),
          sign * (hour * 3600 + minute * 60 + second)>>

apply_time_delta(dt, delta_str) ==
    LET delta == parse_time_delta(delta_str)
    IN  AddDelta(dt, delta[1], delta[2])

\* str.lower() on the folder and file names of the model
LowerTable ==
    [DJI_0001 |-> "dji_0001", IMG_1 |-> "img_1", DRONE |-> "drone",
     Drone |-> "drone", Mini4 |-> "mini4", MyDrone |-> "mydrone"]

Lower(s) ==
    IF s \in DOMAIN LowerTable THEN LowerTable[s]
    ELSE IF s = ".MP4" THEN ".mp4"
    ELSE IF s = "_STABILIZED" THEN "_stabilized"
    ELSE s

adjust_datetime_for_group(dt, group_name, adjustments) ==
    IF Lower(group_name) \in DOMAIN adjustments
    THEN apply_time_delta(dt, adjustments[Lower(group_name)])
    ELSE dt

\* the adjustment of a datetime of this group raises the ValueError of
\* parse_time_delta (apply_time_delta and adjust_datetime_for_group catch
\* nothing)
adjustment_raises(group_name, adjustments) ==
    /\ DOMAIN adjustments # {}
    /\ Lower(group_name) \in DOMAIN adjustments
    /\ parse_time_delta_raises(adjustments[Lower(group_name)])

-----------------------------------------------------------------------------
(* organize_footage_links.py : media files and their names                 *)
(* A media file of Footage_raw is                                          *)
(*   [dirs, name, ext, mtime, ffprobe, sidecar]                            *)
(* dirs: the folders between Footage_raw and the file; ext: the suffix,    *)
(* dot included; mtime: datetime.fromtimestamp(st_mtime); ffprobe: the     *)
(* creation_time tag ffprobe reports (NoDT if none); sidecar: what         *)
(* exiftool reports for each of its three fields (NoDT if "-" or empty),   *)
(* and primary: "ok" when the first exiftool query of a lookup returns     *)
(* with exit status 0, "failed" when it exits with another status or does  *)
(* not return within its timeout.                                          *)
(* A name is [pre, date, dashed, sep, time] and reads                      *)
(*   pre [ "_" ] date sep time                                             *)
(* pre: text with no run of more than four digits, or the eight digits     *)
(* "12345678" alone; date: eight digits, written YYYY-MM-DD when dashed;   *)
(* time: six digits; date and time may be absent (<<>>).  The regular      *)
(* expressions of the program are evaluated on names of this shape, and    *)
(* re.search returns the leftmost match.                                   *)

DRONE_FOLDERS == {"drone", "dji", "mini4", "mavic"}

PHOTO_EXTENSIONS ==
    {".jpg", ".jpeg", ".png", ".gif", ".bmp", ".raw", ".cr2", ".nef",
     ".arw", ".dng", ".heic", ".heif", ".webp", ".tiff", ".tif"}

is_photo(p) == Lower(p.ext) \in PHOTO_EXTENSIONS

_path_has_drone_group(p) ==
    p.dirs # <<>> /\ Lower(p.dirs[1]) \in DRONE_FOLDERS

\* any(part.lower() in DRONE_FOLDERS for part in p.parts)
_path_has_drone_segment(p) ==
    \E i \in DOMAIN p.dirs : Lower(p.dirs[i]) \in DRONE_FOLDERS

source_name(p) == IF p.dirs = <<>> THEN "root" ELSE p.dirs[1]

\* the run of eight digits a name starts with, <<>> if it starts otherwise
LeadingDigits(name) ==
    IF name.pre = "12345678"
    THEN <<"1", "2", "3", "4", "5", "6", "7", "8">>
    ELSE <<>>

\* re.search(r'\d{8}', filename)
HasCompactDate(name) ==
    LeadingDigits(name) # <<>> \/ (name.date # <<>> /\ ~name.dashed)

\* re.search(r'\d{4}-\d{2}-\d{2}', filename)
HasDashedDate(name) == name.date # <<>> /\ name.dashed

\* re.search(r'(\d{4})(\d{2})(\d{2})_(\d{2})(\d{2})(\d{2})', filename)
HasDateUnderscoreTime(name) ==
    /\ name.date # <<>> /\ ~name.dashed
    /\ \/ LeadingDigits(name) # <<>>
       \/ name.time # <<>> /\ name.sep = "_"

\* re.search(r'(\d{4})(\d{2})(\d{2})(\d{2})(\d{2})(\d{2})', filename)
HasFourteenDigits(name) ==
    name.date # <<>> /\ ~name.dashed /\ name.time # <<>> /\ name.sep = ""

_has_filename_datetime(p) ==
    \/ HasCompactDate(p.name)
    \/ HasDashedDate(p.name)
    \/ HasDateUnderscoreTime(p.name)
    \/ HasFourteenDigits(p.name)

\* "dji" in f.name.lower()
HasDjiInName(p) == Lower(p.name.pre) \in {"dji_0001"}

\* datetime(int(year), int(month), int(day)) of the groups of the leftmost
\* match of the date pattern
DateOfDigits(name) ==
    LET run == IF LeadingDigits(name) # <<>> /\ ~name.dashed
               THEN LeadingDigits(name) ELSE name.date
    IN  DateTime(ToInt(SubSeq(run, 1, 4)), ToInt(SubSeq(run, 5, 6)),
                 ToInt(SubSeq(run, 7, 8)), 0, 0, 0)

\* datetime(int(year), ..., int(s)) of the date and time digits
DateTimeOfDigits(name) ==
    DateTime(ToInt(SubSeq(name.date, 1, 4)), ToInt(SubSeq(name.date, 5, 6)),
             ToInt(SubSeq(name.date, 7, 8)), ToInt(SubSeq(name.time, 1, 2)),
             ToInt(SubSeq(name.time, 3, 4)), ToInt(SubSeq(name.time, 5, 6)))

\* datetime(...) of the groups of the leftmost match of Pattern 1: in a name
\* that starts with eight digits and "_" the match takes those eight digits
\* and the six digits after the "_"
Pattern1DateTime(name) ==
    IF LeadingDigits(name) # <<>>
    THEN DateTime(ToInt(SubSeq(LeadingDigits(name), 1, 4)),
                  ToInt(SubSeq(LeadingDigits(name), 5, 6)),
                  ToInt(SubSeq(LeadingDigits(name), 7, 8)),
                  ToInt(SubSeq(name.date, 1, 2)),
                  ToInt(SubSeq(name.date, 3, 4)),
                  ToInt(SubSeq(name.date, 5, 6)))
    ELSE DateTimeOfDigits(name)

NoSidecar == [qt_dto |-> NoDT, dto |-> NoDT, qt_cd |-> NoDT, primary |-> "ok"]

_ffprobe_creation_time(p) == p.ffprobe

\* QuickTime:DateTimeOriginal, then DateTimeOriginal
_exiftool_quicktime_datetime(p) ==
    IF p.sidecar.primary # "ok" THEN NoDT
    ELSE IF p.sidecar.qt_dto # NoDT THEN p.sidecar.qt_dto ELSE p.sidecar.dto

\* QuickTime:DateTimeOriginal, then DateTimeOriginal, then
\* QuickTime:CreationDate
_get_exiftool_datetime_unified(p) ==
    IF p.sidecar.primary # "ok" THEN NoDT
    ELSE IF p.sidecar.qt_dto # NoDT THEN p.sidecar.qt_dto
    ELSE IF p.sidecar.dto # NoDT THEN p.sidecar.dto
    ELSE p.sidecar.qt_cd

\* the status message _get_exiftool_datetime_unified returns with the value,
\* up to the value itself
exiftool_status(p) ==
    IF p.sidecar.primary # "ok" THEN "FAILED"
    ELSE IF p.sidecar.qt_dto # NoDT THEN "SUCCESS"
    ELSE IF p.sidecar.dto # NoDT THEN "SUCCESS (DateTimeOriginal fallback)"
    ELSE IF p.sidecar.qt_cd # NoDT
    THEN "SUCCESS (QuickTime:CreationDate fallback)"
    ELSE "No QuickTime:DateTimeOriginal, DateTimeOriginal, or QuickTime:CreationDate found"

\* the tags _get_exiftool_datetime_unified asks exiftool for, in order
exiftool_queries(p) ==
    IF p.sidecar.primary # "ok" \/ p.sidecar.qt_dto # NoDT
    THEN <<"QuickTime:DateTimeOriginal">>
    ELSE IF p.sidecar.dto # NoDT
    THEN <<"QuickTime:DateTimeOriginal", "DateTimeOriginal">>
    ELSE <<"QuickTime:DateTimeOriginal", "DateTimeOriginal",
           "QuickTime:CreationDate">>

_extract_datetime_with_fallback(p) ==
    IF _ffprobe_creation_time(p) # NoDT THEN _ffprobe_creation_time(p)
    ELSE IF ~_has_filename_datetime(p) THEN _exiftool_quicktime_datetime(p)
    ELSE NoDT

extract_times_strict_tolerance(p) ==
    IF ~_path_has_drone_segment(p) THEN NoDT
    ELSE LET iso == _extract_datetime_with_fallback(p)
         IN  IF iso = NoDT THEN NoDT
             ELSE IF Abs(SecondsBetween(iso, p.mtime)) < 5 * 60
                  THEN p.mtime
                  ELSE AsTimezone(iso)

\* extract_times_for_drone_file: dt_final, NoDT for None
extract_times_for_drone_file(p) ==
    IF ~_path_has_drone_segment(p) THEN NoDT
    ELSE LET iso == _extract_datetime_with_fallback(p)
         IN  IF iso = NoDT THEN NoDT
             ELSE IF Abs(SecondsBetween(iso, p.mtime)) <= 5 * 60
                  THEN p.mtime
                  ELSE AsTimezone(iso)

\* the "source_tag" of the data extract_times_for_drone_file returns: the
\* text up to the name of the tag the time was read from; "" when it
\* returns None
drone_source_tag(p) ==
    IF extract_times_for_drone_file(p) = NoDT THEN ""
    ELSE IF Abs(SecondsBetween(_extract_datetime_with_fallback(p), p.mtime))
               <= 5 * 60
         THEN "mtime (metadata appears to be local time)"
         ELSE "converted UTC from"

\* the external programs extract_times_for_drone_file runs
drone_tools(p) ==
    IF ~_path_has_drone_segment(p) THEN {}
    ELSE {"ffprobe"}
         \cup (IF _ffprobe_creation_time(p) = NoDT
                   /\ ~_has_filename_datetime(p)
                THEN {"exiftool"} ELSE {})

\* apply_adjustment / apply_adjustment_and_return before .date()
apply_adjustment(dt, group_name, adjustments) ==
    IF DOMAIN adjustments # {}
    THEN adjust_datetime_for_group(dt, group_name, adjustments)
    ELSE dt

\* file_date from "Try to extract date from filename first" on
FilenameOrMtimeDate(p, group_name, adjustments) ==
    LET compact == IF HasCompactDate(p.name)
                   THEN DateOfDigits(p.name) ELSE NoDT
        dashed  == IF HasDashedDate(p.name)
                   THEN DateOfDigits(p.name) ELSE NoDT
    IN  IF compact # NoDT /\ YearOf(compact) \in 1990..2030
        THEN DateOf(apply_adjustment(compact, group_name, adjustments))
        ELSE IF dashed # NoDT /\ YearOf(dashed) \in 1990..2030
        THEN DateOf(apply_adjustment(dashed, group_name, adjustments))
        ELSE IF YearOf(p.mtime) < 1990 \/ YearOf(p.mtime) > 2030
        THEN NoDate
        ELSE DateOf(apply_adjustment(p.mtime, group_name, adjustments))

\* file_date lets the ValueError of an adjustment out.  The adjustments of
\* the drone-video, exiftool and filename steps are inside try/except
\* ValueError, so the chain goes on to the next step; the adjustment of the
\* drone-photo step and the one of the final mtime step are outside any try.
file_date_raises(p, group_name, adjustments) ==
    /\ adjustment_raises(group_name, adjustments)
    /\ IF _path_has_drone_segment(p) /\ is_photo(p) THEN TRUE
       ELSE YearOf(p.mtime) \in 1990..2030

\* file_date: a date, NoDate for None (when every adjustment raises and the
\* exception does not get out, the mtime step has returned None)
file_date(p, group_name, adjustments) ==
    IF adjustment_raises(group_name, adjustments) THEN NoDate
    ELSE IF _path_has_drone_segment(p)
    THEN IF ~is_photo(p)
         THEN IF extract_times_for_drone_file(p) # NoDT
              THEN DateOf(apply_adjustment(extract_times_for_drone_file(p),
                                           group_name, adjustments))
              ELSE FilenameOrMtimeDate(p, group_name, adjustments)
         ELSE DateOf(apply_adjustment(p.mtime, group_name, adjustments))
    ELSE IF /\ ~_has_filename_datetime(p)
            /\ _get_exiftool_datetime_unified(p) # NoDT
         THEN DateOf(apply_adjustment(_get_exiftool_datetime_unified(p),
                                      group_name, adjustments))
         ELSE FilenameOrMtimeDate(p, group_name, adjustments)

\* the external programs file_date runs
file_date_tools(p) ==
    IF _path_has_drone_segment(p)
    THEN IF ~is_photo(p) THEN drone_tools(p) ELSE {}
    ELSE IF ~_has_filename_datetime(p) THEN {"exiftool"} ELSE {}

\* what extract_time_from_file returns: a time string "HHhMMmSSs", held as
\* <<hour, minute, second>>, or the marker "KEEP_ORIGINAL"
TimeStr(dt) == [keep |-> FALSE, clock |-> ClockOf(dt)]

KEEP_ORIGINAL == [keep |-> TRUE, clock |-> <<0, 0, 0>>]

\* extract_time_from_file from "Pattern 1" on
FilenameOrMtimeTime(p, group_name, adjustments) ==
    LET p1 == IF HasDateUnderscoreTime(p.name)
              THEN Pattern1DateTime(p.name) ELSE NoDT
        p2 == IF HasFourteenDigits(p.name)
              THEN DateTimeOfDigits(p.name) ELSE NoDT
    IN  IF p1 # NoDT /\ YearOf(p1) \in 1990..2030
        THEN TimeStr(apply_adjustment(p1, group_name, adjustments))
        ELSE IF p2 # NoDT /\ YearOf(p2) \in 1990..2030
        THEN TimeStr(apply_adjustment(p2, group_name, adjustments))
        ELSE IF ~_has_filename_datetime(p)
        THEN IF _get_exiftool_datetime_unified(p) # NoDT
             THEN TimeStr(apply_adjustment(_get_exiftool_datetime_unified(p),
                                           group_name, adjustments))
             ELSE KEEP_ORIGINAL
        ELSE IF YearOf(p.mtime) \in 1990..2300
        THEN TimeStr(apply_adjustment(p.mtime, group_name, adjustments))
        ELSE KEEP_ORIGINAL

\* every adjustment of extract_time_from_file is inside a try that catches
\* ValueError (Exception at the mtime step): when the adjustment raises, each
\* step is given up and the function returns "KEEP_ORIGINAL"
extract_time_from_file(p, group_name, adjustments) ==
    IF adjustment_raises(group_name, adjustments) THEN KEEP_ORIGINAL
    ELSE IF _path_has_drone_segment(p) /\ extract_times_for_drone_file(p) # NoDT
    THEN TimeStr(apply_adjustment(extract_times_for_drone_file(p),
                                  group_name, adjustments))
    ELSE FilenameOrMtimeTime(p, group_name, adjustments)

\* the external programs extract_time_from_file runs
extract_time_tools(p) ==
    drone_tools(p)
    \cup (IF /\ ~(_path_has_drone_segment(p)
                  /\ extract_times_for_drone_file(p) # NoDT)
             /\ ~_has_filename_datetime(p)
          THEN {"exiftool"} ELSE {})

-----------------------------------------------------------------------------
(* organize_footage_links.py : output names, unique_path, copy_file        *)
(* A path under Footage_metadata_sorted is                                 *)
(*   [type_root, day_dir, time, src, stem, tail, orig, counter, ext]       *)
(* day_dir: a date, read YYYY-MM-DD, or NoDate for "date_non_valide".      *)
(* The file name is "{time}_{src}_{stem}{tail}{ext}" when time is a time   *)
(* string, "{src}_{orig}{ext}" when it is KEEP_ORIGINAL; counter n > 0     *)
(* stands for the "_00n" appended to the stem by unique_path.              *)

NoName == [pre |-> "", date |-> <<>>, dashed |-> FALSE, sep |-> "",
           time |-> <<>>]

\* remove_temporal_elements: the stem left once the digit runs are removed
\* and the separators collapsed; a trailing "_" stays where a date stood
remove_temporal_elements(name, file_type) ==
    IF name.pre = "" \/ LeadingDigits(name) # <<>>
    THEN [stem |-> IF file_type = "photo" THEN "photo" ELSE "video",
          tail |-> FALSE]
    ELSE [stem |-> name.pre, tail |-> name.date # <<>>]

\* out_name = f"{time_str}_{src}_{clean_name}" under day_dir
CanonicalPath(type_root, day_dir, time_str, src, p, file_type) ==
    [type_root |-> type_root, day_dir |-> day_dir, time |-> time_str,
     src |-> src, stem |-> remove_temporal_elements(p.name, file_type).stem,
     tail |-> remove_temporal_elements(p.name, file_type).tail,
     orig |-> NoName, counter |-> 0, ext |-> p.ext]

\* out_name = f"{src}_{original_name}" under date_non_valide
OriginalNamePath(type_root, src, p) ==
    [type_root |-> type_root, day_dir |-> NoDate, time |-> KEEP_ORIGINAL,
     src |-> src, stem |-> "", tail |-> FALSE, orig |-> p.name,
     counter |-> 0, ext |-> p.ext]

\* main: the bucket and the name of one file (before unique_path)
PlanPath(f, file_type, adjustments) ==
    LET src       == source_name(f)
        d         == file_date(f, src, adjustments)
        time_str  == extract_time_from_file(f, src, adjustments)
        type_root == IF file_type = "photo" THEN "photo" ELSE "video"
    IN  IF time_str = KEEP_ORIGINAL
        THEN IF HasDjiInName(f) /\ d # NoDate
             THEN CanonicalPath(type_root, d,
                      TimeStr(apply_adjustment(f.mtime, src, adjustments)),
                      src, f, file_type)
             ELSE OriginalNamePath(type_root, src, f)
        ELSE CanonicalPath(type_root, d, time_str, src, f, file_type)

RECURSIVE UniqueFrom(_, _, _)
UniqueFrom(basepath, i, existing) ==
    IF [basepath EXCEPT !.counter = i] \notin existing
    THEN [basepath EXCEPT !.counter = i]
    ELSE UniqueFrom(basepath, i + 1, existing)

\* unique_path: existing is the set of paths present on disk
unique_path(basepath, existing) ==
    IF basepath \notin existing THEN basepath
    ELSE UniqueFrom(basepath, 1, existing)

\* the identity of a raw file: str(source)
OriginalPath(f) == [dirs |-> f.dirs, name |-> f.name, ext |-> f.ext]

NoTxtFields == [original_suffix |-> "", source_tag |-> "", hdr_tag |-> "",
                color_space |-> "", is_log |-> FALSE]

\* the JSON document copy_file writes: placeholder_info.original_path and
\* original_filename are the fields read back by the other programs
JsonPlaceholder(source) ==
    [enc |-> "json", orig |-> OriginalPath(source), txt |-> NoTxtFields]

CopyFileOutcomes == {"ok", "error"}

\* a directory is the sequence of its path components below the project
\* root, which is <<>>
ProjectRoot == <<>>
FootageRawDir == <<"Footage_raw">>
OutputRoot == <<"Footage_metadata_sorted">>
FootageDir == <<"Footage">>

\* the directory of a path under Footage_metadata_sorted
DayDir(q) == <<"Footage_metadata_sorted", q.type_root, q.day_dir>>

\* a directory and the directories above it
WithParents(d) == {SubSeq(d, 1, k) : k \in 0..Len(d)}

\* the directories that hold the files of Footage_metadata_sorted
DirsOf(files) == UNION {WithParents(DayDir(q)) : q \in DOMAIN files}

\* an ensure_dir that creates the directory in every mode
ensure_dir_always(existing, d, simulate) == existing \cup WithParents(d)

\* ensure_dir(d, simulate): d.mkdir(parents=True, exist_ok=True) unless
\* simulate
ensure_dir(existing, d, simulate) ==
    IF simulate THEN existing ELSE existing \cup WithParents(d)

\* copy_file(source, dest, simulate): [ok, files]; outcome "error" is an
\* exception raised by source.stat() before the placeholder is opened
copy_file(source, dest, files, outcome, simulate) ==
    LET unlinked == IF dest \in DOMAIN files
                    THEN [q \in DOMAIN files \ {dest} |-> files[q]]
                    ELSE files
        json_dest == [dest EXCEPT !.ext = ".json"]
    IN  IF simulate
        THEN [ok |-> TRUE, files |-> files]
        ELSE IF outcome = "error"
        THEN [ok |-> FALSE, files |-> unlinked]
        ELSE [ok |-> TRUE,
              files |-> [q \in DOMAIN unlinked \cup {json_dest} |->
                            IF q = json_dest THEN JsonPlaceholder(source)
                            ELSE unlinked[q]]]

-----------------------------------------------------------------------------
(* organize_footage_links.main                                             *)

VIDEO_EXT_DEFAULT ==
    {".mp4", ".mov", ".m4v", ".avi", ".mkv", ".mts", ".m2ts", ".wmv", ".3gp",
     ".mpg", ".mpeg", ".insv", ".360", ".mod", ".tod"}

PHOTO_EXT_DEFAULT ==
    {".jpg", ".jpeg", ".png", ".tiff", ".tif", ".raw", ".cr2", ".cr3",
     ".nef", ".arw", ".dng", ".heic", ".heif"}

\* list_media_files / list_videos: the files listed with their type (no
\* name of the model ends with _stabilized, so every file is an "original")
ListedFiles(files, include_photos) ==
    {[file |-> f, type |-> "video"] :
        f \in {g \in files : Lower(g.ext) \in VIDEO_EXT_DEFAULT}}
    \cup
    {[file |-> f, type |-> "photo"] :
        f \in {g \in files : /\ include_photos
                             /\ Lower(g.ext) \notin VIDEO_EXT_DEFAULT
                             /\ Lower(g.ext) \in PHOTO_EXT_DEFAULT}}

\* the orders in which rglob may yield the files of a set
Orders(S) ==
    {s \in [1..Cardinality(S) -> S] :
        \A i, j \in 1..Cardinality(S) : i # j => s[i] # s[j]}

\* ---- the raw footage of a run ----

\* how many media files Footage_raw holds at most
MaxFiles == 2

\* 2025-01-31 and 23:30:00 as they stand in a file name
DateDigits == <<"2", "0", "2", "5", "0", "1", "3", "1">>

TimeDigits == <<"2", "3", "3", "0", "0", "0">>

Prefixes == {"IMG_1", "DJI_0001"}

\* no date, YYYYMMDD_HHMMSS, YYYYMMDDHHMMSS
NameForms ==
    {[date |-> <<>>, dashed |-> FALSE, sep |-> "", time |-> <<>>],
     [date |-> DateDigits, dashed |-> FALSE, sep |-> "_",
      time |-> TimeDigits],
     [date |-> DateDigits, dashed |-> FALSE, sep |-> "",
      time |-> TimeDigits]}

\* DJI_0001, IMG_1, IMG_1_20250131_233000, IMG_1_20250131233000
Names ==
    {n \in [pre : Prefixes, date : {nf.date : nf \in NameForms},
            dashed : {FALSE}, sep : {nf.sep : nf \in NameForms},
            time : {nf.time : nf \in NameForms}] :
        /\ [date |-> n.date, dashed |-> n.dashed, sep |-> n.sep,
            time |-> n.time] \in NameForms
        /\ n.date # <<>> => n.pre = "IMG_1"}

Folders == {<<"cell">>, <<"drone">>}

Extensions == {".mp4", ".jpg"}

\* a modification time inside the accepted years and one before them
Mtimes == {DateTime(2025, 1, 31, 23, 31, 0), DateTime(1980, 1, 1, 0, 0, 0)}

\* creation_time 2025-02-01T04:31:00Z, or no tag
Ffprobes == {NoDT, DateTime(2025, 2, 1, 4, 31, 0)}

Sidecars ==
    {NoSidecar, [NoSidecar EXCEPT !.dto = DateTime(2025, 1, 31, 23, 45, 0)]}

\* the files a folder may hold, all with the modification time the copy
\* from the card gave them.  Evidence the program never consults for a file
\* stays absent: ffprobe is run on files under a drone folder only (and
\* reports a creation_time for videos only), exiftool on files whose name
\* carries no date only
MediaFiles(folder, mtime) ==
    {f \in [dirs : {folder}, name : Names, ext : Extensions, mtime : {mtime},
            ffprobe : Ffprobes, sidecar : Sidecars] :
        /\ f.ffprobe # NoDT => _path_has_drone_segment(f) /\ ~is_photo(f)
        /\ f.sidecar # NoSidecar => ~_has_filename_datetime(f)}

\* the sets of at most k files of X, no two at the same path
RECURSIVE FileSets(_, _)
FileSets(X, k) ==
    IF k = 0 THEN {{}}
    ELSE FileSets(X, k - 1)
         \cup UNION {{s \cup {f} :
                          f \in {g \in X : \A h \in s :
                                     OriginalPath(g) # OriginalPath(h)}} :
                      s \in FileSets(X, k - 1)}

\* "+00000000_010000" and "-00000001_000000"
PlusOneHour ==
    <<"+", "0", "0", "0", "0", "0", "0", "0", "0", "_",
      "0", "1", "0", "0", "0", "0">>

MinusOneDay ==
    <<"-", "0", "0", "0", "0", "0", "0", "0", "1", "_",
      "0", "0", "0", "0", "0", "0">>

\* specific_group_time_adjust.json: absent, or one of two contents
AdjustmentConfigs ==
    {<<>>, [cell |-> PlusOneHour, drone |-> PlusOneHour],
     [cell |-> MinusOneDay]}

\* a .txt placeholder left in Footage_metadata_sorted by an earlier run
LegacyTxtPath ==
    [type_root |-> "video", day_dir |-> <<2025, 1, 30>>,
     time |-> [keep |-> FALSE, clock |-> <<10, 0, 0>>], src |-> "drone",
     stem |-> "DJI_0001", tail |-> FALSE, orig |-> NoName, counter |-> 0,
     ext |-> ".txt"]

LegacyTxtContent ==
    [enc |-> "txt",
     orig |-> [dirs |-> <<"drone">>,
               name |-> [NoName EXCEPT !.pre = "DJI_0001"], ext |-> ".mp4"],
     txt |-> [original_suffix |-> ".mp4", source_tag |-> "DRONE",
              hdr_tag |-> "SDR", color_space |-> "bt709",
              is_log |-> FALSE]]

OrganizerInit ==
    /\ groups = {} /\ results = <<>>
    /\ TransferIdle
    /\ DocIdle
    /\ ToolIdle
    /\ ParseIdle
    /\ StabIdle
    /\ \E folder \in Folders, mtime \in Mtimes :
          raw \in FileSets(MediaFiles(folder, mtime), MaxFiles)
    /\ time_adjustments \in AdjustmentConfigs
    /\ oargs \in [include_photos : BOOLEAN, simulate : {FALSE},
                   dry_run : {FALSE}]
    /\ all_files = <<>>
    /\ out \in {<<>>, [q \in {LegacyTxtPath} |-> LegacyTxtContent]}
    /\ odirs = {ProjectRoot, FootageRawDir} \cup DirsOf(out)
    /\ exit_o = NoExit
    /\ exit_m = NoExit
    /\ emitted = <<>>
    /\ created = 0
    /\ failed = 0
    /\ pcO = "start"
    /\ csv = NoCsv
    /\ txt_files = <<>>
    /\ metadata_rows = <<>>

\* main up to the loop: sys.exit(1) if the project directory or Footage_raw
\* does not exist; list the media files and return if there are none;
\* ensure_dir(output_root)
ListFiles ==
    /\ pcO = "start"
    /\ IF ProjectRoot \notin odirs \/ FootageRawDir \notin odirs
       THEN /\ exit_o' = 1
            /\ pcO' = "done"
            /\ UNCHANGED <<all_files, odirs>>
       ELSE \E order \in Orders(ListedFiles(raw, oargs.include_photos)) :
              /\ all_files' = order
              /\ pcO' = IF order = <<>> THEN "done" ELSE "loop"
              /\ exit_o' = IF order = <<>> THEN 0 ELSE NoExit
              /\ odirs' = IF order = <<>> THEN odirs
                          ELSE ensure_dir(odirs, OutputRoot, oargs.simulate)
    /\ UNCHANGED <<raw, time_adjustments, oargs, exit_m, out, emitted,
                   created, failed, csv, metaVars>>
    /\ UNCHANGED <<colorVars, notOrganizerVars>>

\* one iteration of the loop of main.  Nothing in main catches an exception
\* of file_date: the interpreter prints the traceback and the process ends
\* with exit code 1, the remaining files unprocessed.
ProcessFile ==
    /\ pcO = "loop"
    /\ LET f         == all_files[Len(emitted) + 1].file
           file_type == all_files[Len(emitted) + 1].type
           src       == source_name(f)
           out_path  == unique_path(PlanPath(f, file_type, time_adjustments),
                                    DOMAIN out)
       IN  IF file_date_raises(f, src, time_adjustments)
           THEN /\ pcO' = "done"
                /\ exit_o' = 1
                /\ UNCHANGED <<odirs, out, created, failed, emitted>>
           ELSE
           \E outcome \in CopyFileOutcomes :
              LET r == copy_file(f, out_path, out, outcome, oargs.simulate)
              IN  /\ odirs' = ensure_dir(odirs, DayDir(out_path),
                                         oargs.simulate)
                  /\ out' = r.files
                  /\ created' = created + (IF r.ok THEN 1 ELSE 0)
                  /\ failed' = failed + (IF r.ok THEN 0 ELSE 1)
                  /\ emitted' = Append(emitted,
                        [file |-> f, type |-> file_type,
                         d |-> file_date(f, src, time_adjustments),
                         time_str |-> extract_time_from_file(f, src,
                                          time_adjustments),
                         out_path |-> out_path, ok |-> r.ok])
                  /\ pcO' = IF Len(emitted) + 1 = Len(all_files)
                            THEN "done" ELSE "loop"
                  /\ exit_o' = IF Len(emitted) + 1 = Len(all_files)
                               THEN 0 ELSE NoExit
    /\ UNCHANGED <<raw, time_adjustments, oargs, exit_m, all_files, csv,
                   metaVars>>
    /\ UNCHANGED <<colorVars, notOrganizerVars>>

-----------------------------------------------------------------------------
(* create_metadata.main on the directory the organizer has filled          *)

\* the folder and name strings of the model, in str order
StrOrder == <<"", "DJI_0001", "IMG_1", "cell", "drone", "photo", "video">>

\* the sort key of a relpath "type_root/day_dir/name": the numbers that order
\* the strings (a name that starts with a time string sorts before one that
\* starts with a lower-case source)
PathKey(q) ==
    <<IndexOf(StrOrder, q.type_root),
      IF q.day_dir = NoDate THEN 1 ELSE 0,
      q.day_dir[1], q.day_dir[2], q.day_dir[3],
      IF q.time.keep THEN 1 ELSE 0,
      q.time.clock[1], q.time.clock[2], q.time.clock[3],
      IndexOf(StrOrder, q.src),
      IndexOf(StrOrder, IF q.time.keep THEN q.orig.pre ELSE q.stem),
      q.counter>>

RECURSIVE LexLess(_, _)
LexLess(a, b) ==
    IF a = <<>> THEN FALSE
    ELSE IF a[1] # b[1] THEN a[1] < b[1]
    ELSE LexLess(Tail(a), Tail(b))

\* metadata_rows.sort(key=lambda x: x['relpath']): a stable sort
RECURSIVE SortByRelpath(_)
SortByRelpath(rows) ==
    IF rows = <<>> THEN <<>>
    ELSE LET front == SortByRelpath(SubSeq(rows, 1, Len(rows) - 1))
             r     == rows[Len(rows)]
             k     == Cardinality({i \in DOMAIN front :
                          ~LexLess(PathKey(r.relpath),
                                   PathKey(front[i].relpath))})
         IN  SubSeq(front, 1, k) \o <<r>> \o SubSeq(front, k + 1, Len(front))

\* rglob("*.txt") minus the files with a path part "photos"
TxtFiles(files) ==
    {q \in DOMAIN files : q.ext = ".txt" /\ q.type_root # "photos"}

\* parse_txt_placeholder returns None when "PLACEHOLDER FOR: " or
\* "*** SOURCE TAG: " is missing
Parses(content) ==
    content.txt.original_suffix # "" /\ content.txt.source_tag # ""

\* a row that carries a colour as soon as it is built
MetadataRowEager(txt_file, content) ==
    [filename   |-> [txt_file EXCEPT !.ext = content.txt.original_suffix,
                                     !.type_root = "", !.day_dir = NoDate],
     relpath    |-> [txt_file EXCEPT !.ext = content.txt.original_suffix],
     group_name |-> Group(content.txt.source_tag, "709"),
     clip_color |-> "Purple",
     color_space |-> content.txt.color_space,
     source     |-> content.txt.source_tag]

\* the row built from one parsed placeholder; clip_color is set later
MetadataRow(txt_file, content) ==
    [filename   |-> [txt_file EXCEPT !.ext = content.txt.original_suffix,
                                     !.type_root = "", !.day_dir = NoDate],
     relpath    |-> [txt_file EXCEPT !.ext = content.txt.original_suffix],
     group_name |-> Group(content.txt.source_tag,
                          IF content.txt.hdr_tag # ""
                          THEN (IF content.txt.hdr_tag \in {"HDR", "LOG"}
                                THEN "LOG" ELSE "709")
                          ELSE (IF content.txt.is_log THEN "LOG" ELSE "709")),
     clip_color |-> NoColor,
     color_space |-> content.txt.color_space,
     source     |-> content.txt.source_tag]

\* create_metadata.main: return if the project directory or
\* Footage_metadata_sorted does not exist; scan, parse, sort, colour; with
\* --dry-run return, else create Footage and write metadata.csv.  Every
\* return of main ends the process with exit code 0.
CreateMetadata ==
    /\ pcO = "done"
    /\ pcO' = "csv"
    /\ exit_m' = 0
    /\ IF ProjectRoot \notin odirs \/ OutputRoot \notin odirs
       THEN UNCHANGED <<csv, groups, results, odirs>>
       ELSE IF TxtFiles(out) = {}
       THEN UNCHANGED <<csv, groups, results, odirs>>
       ELSE \E scan \in Orders(TxtFiles(out)) :
              LET parsed == SelectSeq(scan, LAMBDA q : Parses(out[q]))
                  rows   == SortByRelpath(
                               [i \in DOMAIN parsed |->
                                   MetadataRow(parsed[i], out[parsed[i]])])
                  found  == {rows[i].group_name : i \in DOMAIN rows}
              IN  \E order \in IterOrders(found) :
                     /\ groups' = found
                     /\ results' = Append(results,
                                          assign_colors_to_groups(order))
                     /\ IF oargs.dry_run
                        THEN UNCHANGED <<csv, odirs>>
                        ELSE /\ odirs' = odirs \cup {FootageDir}
                             /\ csv' = [written |-> TRUE,
                                    rows |-> [i \in DOMAIN rows |->
                                       [rows[i] EXCEPT !.clip_color =
                                           results'[Len(results')]
                                                   [rows[i].group_name]]]]
    /\ UNCHANGED <<raw, time_adjustments, oargs, exit_o, all_files, out,
                   emitted, created, failed, metaVars>>
    /\ UNCHANGED notOrganizerVars

Next ==
    \/ ListFiles
    \/ ProcessFile
    \/ CreateMetadata

Spec == OrganizerInit /\ [][Next]_vars

-----------------------------------------------------------------------------
(* SpecResolver: the two programs run on a Footage_raw that holds one      *)
(* file, drawn from folders, names and timestamps that exercise every      *)
(* branch of the date and time resolvers                                   *)

\* folders that are, contain or merely resemble a name of DRONE_FOLDERS
ResolverFolders ==
    {<<"cell">>, <<"drone">>, <<"DRONE">>, <<"MyDrone">>, <<"dronevideos">>,
     <<"cell", "Mini4">>}

\* the names of Names, 12345678_20250131_233000 and 12345678_20250131233000
ResolverNames ==
    Names
    \cup {[pre |-> "12345678", date |-> DateDigits, dashed |-> FALSE,
           sep |-> sp, time |-> TimeDigits] : sp \in {"_", ""}}

\* a winter and a summer modification time
ResolverMtimes ==
    {DateTime(2025, 1, 31, 23, 31, 0), DateTime(2025, 7, 15, 12, 0, 0)}

\* creation_time tags: none; 300 and 301 seconds after and before the
\* winter modification time; 16:00:00Z on a January and on a July day;
\* a winter instant whose local date is the day before
ResolverFfprobes ==
    {NoDT,
     DateTime(2025, 1, 31, 23, 36, 0), DateTime(2025, 1, 31, 23, 36, 1),
     DateTime(2025, 1, 31, 23, 26, 0), DateTime(2025, 1, 31, 23, 25, 59),
     DateTime(2025, 1, 15, 16, 0, 0), DateTime(2025, 7, 15, 16, 0, 0),
     DateTime(2025, 2, 1, 4, 31, 0)}

ResolverFiles ==
    [dirs : ResolverFolders, name : ResolverNames, ext : Extensions,
     mtime : ResolverMtimes, ffprobe : ResolverFfprobes, sidecar : Sidecars]

ResolverInit ==
    /\ groups = {} /\ results = <<>>
    /\ TransferIdle
    /\ DocIdle
    /\ ToolIdle
    /\ ParseIdle
    /\ StabIdle
    /\ \E f \in ResolverFiles : raw = {f}
    /\ time_adjustments \in {<<>>, [cell |-> PlusOneHour, drone |-> PlusOneHour]}
    /\ oargs \in [include_photos : BOOLEAN, simulate : {FALSE},
                   dry_run : {FALSE}]
    /\ odirs = {ProjectRoot, FootageRawDir}
    /\ exit_o = NoExit
    /\ exit_m = NoExit
    /\ all_files = <<>>
    /\ out = <<>>
    /\ emitted = <<>>
    /\ created = 0
    /\ failed = 0
    /\ pcO = "start"
    /\ csv = NoCsv
    /\ txt_files = <<>>
    /\ metadata_rows = <<>>

SpecResolver == ResolverInit /\ [][Next]_vars

-----------------------------------------------------------------------------
(* SpecSidecar: the two programs run on a Footage_raw that holds one file  *)
(* outside the drone folders, with no date in its name, whose exiftool     *)
(* fields are present or absent in every combination                       *)
(***************************************************************************)

\* 2024-05-01 10:00:00, 2024-05-02 11:00:00 and 2024-05-03 12:00:00, one
\* per field, so that the value tells the field it was read from
SidecarUniverse ==
    {sc \in [qt_dto : {NoDT, DateTime(2024, 5, 1, 10, 0, 0)},
             dto : {NoDT, DateTime(2024, 5, 2, 11, 0, 0)},
             qt_cd : {NoDT, DateTime(2024, 5, 3, 12, 0, 0)},
             primary : {"ok", "failed"}] :
        sc.primary = "failed" => sc.qt_dto = NoDT}

SidecarFiles ==
    [dirs : {<<"cell">>},
     name : {n \in Names : ~_has_filename_datetime([name |-> n])},
     ext : Extensions,
     mtime : {DateTime(2025, 1, 31, 23, 31, 0)},
     ffprobe : {NoDT},
     sidecar : SidecarUniverse]

SidecarInit ==
    /\ groups = {} /\ results = <<>>
    /\ TransferIdle
    /\ DocIdle
    /\ ToolIdle
    /\ ParseIdle
    /\ StabIdle
    /\ \E f \in SidecarFiles : raw = {f}
    /\ time_adjustments \in {<<>>, [cell |-> PlusOneHour]}
    /\ oargs \in [include_photos : BOOLEAN, simulate : {FALSE},
                   dry_run : {FALSE}]
    /\ odirs = {ProjectRoot, FootageRawDir}
    /\ exit_o = NoExit
    /\ exit_m = NoExit
    /\ all_files = <<>>
    /\ out = <<>>
    /\ emitted = <<>>
    /\ created = 0
    /\ failed = 0
    /\ pcO = "start"
    /\ csv = NoCsv
    /\ txt_files = <<>>
    /\ metadata_rows = <<>>

SpecSidecar == SidecarInit /\ [][Next]_vars

-----------------------------------------------------------------------------
(* SpecMetadata: create_metadata.main step by step, on a                   *)
(* Footage_metadata_sorted that holds text placeholders: the scan, one     *)
(* step per placeholder parsed, the colour assignment, the writing of      *)
(* metadata.csv                                                            *)
(***************************************************************************)

MetadataPaths ==
    {[LegacyTxtPath EXCEPT !.stem = st] : st \in {"DJI_0001", "IMG_1", "video"}}

\* text placeholders of two sources, SDR or HDR, and one without a
\* "*** SOURCE TAG: " line
MetadataContents ==
    {[LegacyTxtContent EXCEPT !.txt.source_tag = tag, !.txt.hdr_tag = hdr] :
        tag \in {"DRONE", "GOPRO", ""}, hdr \in {"SDR", "HDR"}}

MetadataInit ==
    /\ groups = {} /\ results = <<>>
    /\ TransferIdle
    /\ DocIdle
    /\ ToolIdle
    /\ ParseIdle
    /\ StabIdle
    /\ raw = {}
    /\ time_adjustments = <<>>
    /\ oargs \in [include_photos : {FALSE}, simulate : {FALSE},
                   dry_run : BOOLEAN]
    /\ \E S \in SUBSET MetadataPaths : out \in [S -> MetadataContents]
    /\ odirs = {ProjectRoot, FootageRawDir, OutputRoot} \cup DirsOf(out)
    /\ exit_o = 0
    /\ exit_m = NoExit
    /\ all_files = <<>>
    /\ emitted = <<>>
    /\ created = 0
    /\ failed = 0
    /\ pcO = "done"
    /\ csv = NoCsv
    /\ txt_files = <<>>
    /\ metadata_rows = <<>>

\* main and the head of create_metadata_csv_from_txt: validate the
\* directories, collect the .txt files, return if there is none
ScanPlaceholders ==
    /\ pcO = "done"
    /\ IF \/ ProjectRoot \notin odirs \/ OutputRoot \notin odirs
          \/ TxtFiles(out) = {}
       THEN /\ pcO' = "csv"
            /\ exit_m' = 0
            /\ UNCHANGED txt_files
       ELSE /\ pcO' = "parse"
            /\ txt_files' \in Orders(TxtFiles(out))
            /\ UNCHANGED exit_m
    /\ UNCHANGED <<raw, time_adjustments, oargs, odirs, exit_o, all_files,
                   out, emitted, created, failed, csv, metadata_rows>>
    /\ UNCHANGED <<colorVars, notOrganizerVars>>

\* one iteration of "for txt_file in txt_files": parse the placeholder, add
\* its group to groups_found and its row to metadata_rows
ParsePlaceholder ==
    /\ pcO = "parse"
    /\ LET txt_file == Head(txt_files)
       IN  IF Parses(out[txt_file])
           THEN LET row == MetadataRow(txt_file, out[txt_file])
                IN  /\ groups' = groups \cup {row.group_name}
                    /\ metadata_rows' = Append(metadata_rows, row)
           ELSE UNCHANGED <<groups, metadata_rows>>
    /\ txt_files' = Tail(txt_files)
    /\ pcO' = IF Tail(txt_files) = <<>> THEN "colour" ELSE "parse"
    /\ UNCHANGED <<raw, time_adjustments, oargs, odirs, exit_o, exit_m,
                   all_files, out, emitted, created, failed, csv>>
    /\ UNCHANGED <<results, notOrganizerVars>>

\* after the loop: sort the rows, call assign_colors_to_groups(groups_found)
\* and set the clip_color of every row
AssignGroupColors ==
    /\ pcO = "colour"
    /\ pcO' = "write"
    /\ \E order \in IterOrders(groups) :
          LET color_assignment == assign_colors_to_groups(order)
              rows == SortByRelpath(metadata_rows)
          IN  /\ results' = Append(results, color_assignment)
              /\ metadata_rows' =
                    [i \in DOMAIN rows |->
                        [rows[i] EXCEPT !.clip_color =
                                            color_assignment[rows[i].group_name]]]
    /\ UNCHANGED <<raw, time_adjustments, oargs, odirs, exit_o, exit_m,
                   all_files, out, emitted, created, failed, csv, txt_files>>
    /\ UNCHANGED <<groups, notOrganizerVars>>

\* the end of create_metadata_csv_from_txt: return under --dry-run, else
\* create Footage and write metadata.csv
WriteCsv ==
    /\ pcO = "write"
    /\ pcO' = "csv"
    /\ exit_m' = 0
    /\ IF oargs.dry_run
       THEN UNCHANGED <<csv, odirs>>
       ELSE /\ odirs' = odirs \cup {FootageDir}
            /\ csv' = [written |-> TRUE, rows |-> metadata_rows]
    /\ UNCHANGED <<raw, time_adjustments, oargs, exit_o, all_files, out,
                   emitted, created, failed, metaVars>>
    /\ UNCHANGED <<colorVars, notOrganizerVars>>

MetadataNext ==
    \/ ScanPlaceholders
    \/ ParsePlaceholder
    \/ AssignGroupColors
    \/ WriteCsv

SpecMetadata == MetadataInit /\ [][MetadataNext]_vars

-----------------------------------------------------------------------------
(* SpecModes: the two programs run with and without --simulate and         *)
(* --dry-run, on projects whose directories may be missing                 *)
(***************************************************************************)

\* the directories that exist before the run: nothing at all, an empty
\* project directory, or a project with some of Footage_raw,
\* Footage_metadata_sorted and Footage
ProjectLayouts ==
    {{}} \cup {{ProjectRoot} \cup S :
                  S \in SUBSET {FootageRawDir, OutputRoot, FootageDir}}

\* a text placeholder of a photo, in the photo type-root
LegacyPhotoTxtPath ==
    [LegacyTxtPath EXCEPT !.type_root = "photo", !.stem = "photo"]

LegacyPhotoTxtContent ==
    [enc |-> "txt",
     orig |-> [dirs |-> <<"drone">>,
               name |-> [NoName EXCEPT !.pre = "DJI_0001"], ext |-> ".jpg"],
     txt |-> [original_suffix |-> ".jpg", source_tag |-> "DRONE",
              hdr_tag |-> "SDR", color_space |-> "bt709",
              is_log |-> FALSE]]

\* the text placeholders Footage_metadata_sorted may hold before the run
LegacyPlaceholders ==
    {[q \in S |-> IF q = LegacyTxtPath THEN LegacyTxtContent
                  ELSE LegacyPhotoTxtContent] :
        S \in SUBSET {LegacyTxtPath, LegacyPhotoTxtPath}}

ModesInit ==
    /\ groups = {} /\ results = <<>>
    /\ TransferIdle
    /\ DocIdle
    /\ ToolIdle
    /\ ParseIdle
    /\ StabIdle
    /\ \E layout \in ProjectLayouts :
          /\ raw \in IF FootageRawDir \in layout
                      THEN FileSets(MediaFiles(<<"cell">>,
                                        DateTime(2025, 1, 31, 23, 31, 0)),
                                    MaxFiles)
                      ELSE {{}}
          /\ out \in IF OutputRoot \in layout
                      THEN LegacyPlaceholders
                      ELSE {<<>>}
          /\ odirs = layout \cup DirsOf(out)
    /\ time_adjustments = <<>>
    /\ oargs \in [include_photos : {TRUE}, simulate : BOOLEAN,
                   dry_run : BOOLEAN]
    /\ exit_o = NoExit
    /\ exit_m = NoExit
    /\ all_files = <<>>
    /\ emitted = <<>>
    /\ created = 0
    /\ failed = 0
    /\ pcO = "start"
    /\ csv = NoCsv
    /\ txt_files = <<>>
    /\ metadata_rows = <<>>

SpecModes == ModesInit /\ [][Next]_vars

-----------------------------------------------------------------------------
(* SpecDelta: the organizer run with a specific_group_time_adjust.json     *)
(* whose delta strings may be malformed                                    *)
(***************************************************************************)

\* "+1h"
DeltaBadLength == <<"+", "1", "h">>

\* "+000000h1_000000"
DeltaBadField ==
    <<"+", "0", "0", "0", "0", "0", "0", "h", "1", "_",
      "0", "0", "0", "0", "0", "0">>

\* json.load accepts any string as the value of a group
DeltaConfigs ==
    {[cell |-> PlusOneHour, drone |-> PlusOneHour],
     [cell |-> DeltaBadLength, drone |-> DeltaBadLength],
     [cell |-> PlusOneHour, drone |-> DeltaBadField]}

DeltaInit ==
    /\ groups = {} /\ results = <<>>
    /\ TransferIdle
    /\ DocIdle
    /\ ToolIdle
    /\ ParseIdle
    /\ StabIdle
    /\ \E folder \in Folders, mtime \in Mtimes :
          raw \in FileSets(MediaFiles(folder, mtime), MaxFiles)
    /\ time_adjustments \in DeltaConfigs
    /\ oargs = [include_photos |-> TRUE, simulate |-> FALSE,
                dry_run |-> FALSE]
    /\ all_files = <<>>
    /\ out = <<>>
    /\ odirs = {ProjectRoot, FootageRawDir}
    /\ exit_o = NoExit
    /\ exit_m = NoExit
    /\ emitted = <<>>
    /\ created = 0
    /\ failed = 0
    /\ pcO = "start"
    /\ csv = NoCsv
    /\ txt_files = <<>>
    /\ metadata_rows = <<>>

SpecDelta == DeltaInit /\ [][Next]_vars

-----------------------------------------------------------------------------
(* SpecParse: parse_time_delta on one string                               *)
(***************************************************************************)

\* the concatenation of a sequence of strings of characters
RECURSIVE Concat(_)
Concat(parts) ==
    IF parts = <<>> THEN <<>> ELSE Head(parts) \o Concat(Tail(parts))

\* 16-character strings "sYYYYMMDDxHHMMSS" with a sign, a separator or a
\* day field that may be off the format, the empty string and "+1h"
DeltaStrings ==
    {Concat(<<sg, y, m, d, sp, t>>) :
        sg \in {<<"+">>, <<"-">>, <<"x">>},
        y \in {<<"0", "0", "0", "0">>, <<"0", "0", "0", "1">>},
        m \in {<<"0", "0">>, <<"0", "1">>},
        d \in {<<"0", "0">>, <<"0", "1">>, <<"0", "h">>},
        sp \in {<<"_">>, <<"X">>},
        t \in {<<"0", "0", "0", "0", "0", "0">>,
               <<"0", "2", "0", "0", "0", "0">>,
               <<"0", "1", "0", "2", "0", "3">>}}
    \cup {<<>>, DeltaBadLength}

ParseInit ==
    /\ groups = {} /\ results = <<>>
    /\ TransferIdle
    /\ OrganizerIdle
    /\ DocIdle
    /\ ToolIdle
    /\ StabIdle
    /\ delta_in \in DeltaStrings
    /\ parse_result = NotParsed

\* one call parse_time_delta(delta_in)
ParseTimeDelta ==
    /\ ~parse_result.called
    /\ parse_result' =
          IF parse_time_delta_raises(delta_in)
          THEN [called |-> TRUE, raised |-> TRUE, days |-> 0, seconds |-> 0]
          ELSE [called |-> TRUE, raised |-> FALSE,
                days |-> parse_time_delta(delta_in)[1],
                seconds |-> parse_time_delta(delta_in)[2]]
    /\ UNCHANGED <<delta_in, notParseVars>>

ParseNext == ParseTimeDelta

SpecParse == ParseInit /\ [][ParseNext]_vars

-----------------------------------------------------------------------------
(* SpecStabilized: list_media_files, file_date and extract_time_from_file  *)
(* on a folder that holds stabilized files                                 *)
(* A file of the folder is [file, marks]: file is a media file as above,   *)
(* marks the stabilized suffixes its stem ends with, so that the stem      *)
(* reads name marks[1] marks[2] ...                                        *)
(***************************************************************************)

\* how many files the folder holds at most
MaxTree == 3

Front(s) == SubSeq(s, 1, Len(s) - 1)

\* the files of tr at path.parent / (stem + suffix)
AtPath(tr, folder, name, marks, ext) ==
    {x \in tr : /\ x.file.dirs = folder /\ x.file.name = name
                /\ x.marks = marks /\ x.file.ext = ext}

\* p.stem.endswith("_stabilized") and original_path.exists(): the original
\* file, as a set of at most one file
OriginalFile(e, tr) ==
    IF e.marks # <<>> /\ e.marks[Len(e.marks)] = "_stabilized"
    THEN AtPath(tr, e.file.dirs, e.file.name, Front(e.marks), e.file.ext)
    ELSE {}

\* a file_date that dates a stabilized file by the file itself
file_date_own(e, tr, group_name, adjustments) ==
    file_date(e.file, group_name, adjustments)

\* file_date on a file of the folder: the original file's date for a
\* stabilized file whose original exists
RECURSIVE file_date_of(_, _, _, _)
file_date_of(e, tr, group_name, adjustments) ==
    IF OriginalFile(e, tr) # {}
    THEN file_date_of(CHOOSE x \in OriginalFile(e, tr) : TRUE, tr,
                      group_name, adjustments)
    ELSE file_date(e.file, group_name, adjustments)

\* extract_time_from_file on a file of the folder
RECURSIVE extract_time_of(_, _, _, _)
extract_time_of(e, tr, group_name, adjustments) ==
    IF OriginalFile(e, tr) # {}
    THEN extract_time_of(CHOOSE x \in OriginalFile(e, tr) : TRUE, tr,
                         group_name, adjustments)
    ELSE extract_time_from_file(e.file, group_name, adjustments)

\* the number of recursive calls file_date makes on a file of the folder
RECURSIVE Hops(_, _)
Hops(e, tr) ==
    IF OriginalFile(e, tr) # {}
    THEN 1 + Hops(CHOOSE x \in OriginalFile(e, tr) : TRUE, tr)
    ELSE 0

\* list_media_files: the type the extension gives, "" if it gives none
MediaType(e) ==
    IF Lower(e.file.ext) \in VIDEO_EXT_DEFAULT THEN "video"
    ELSE IF Lower(e.file.ext) \in PHOTO_EXT_DEFAULT THEN "photo"
    ELSE ""

\* stem.lower().endswith("_stabilized") or .endswith(" stabilized")
IsStabilized(e) ==
    /\ e.marks # <<>>
    /\ Lower(e.marks[Len(e.marks)]) \in {"_stabilized", " stabilized"}

\* group_key = (p.parent, base_name, ext)
GroupKey(e) ==
    [dirs |-> e.file.dirs, name |-> e.file.name,
     marks |-> IF IsStabilized(e) THEN Front(e.marks) ELSE e.marks,
     ext |-> Lower(e.file.ext)]

\* first pass of list_media_files: file_groups after the files of order, a
\* sequence in the insertion order of the keys; each version of a group is
\* a set of at most one file
RECURSIVE FileGroups(_)
FileGroups(order) ==
    IF order = <<>> THEN <<>>
    ELSE LET front == FileGroups(Front(order))
             e     == order[Len(order)]
             at    == {i \in DOMAIN front : front[i].key = GroupKey(e)}
         IN  IF MediaType(e) = "" THEN front
             ELSE IF at = {}
             THEN Append(front,
                     [key |-> GroupKey(e),
                      stabilized |-> IF IsStabilized(e) THEN {e} ELSE {},
                      original |-> IF IsStabilized(e) THEN {} ELSE {e}])
             ELSE [front EXCEPT ![CHOOSE i \in at : TRUE] =
                      IF IsStabilized(e)
                      THEN [@ EXCEPT !.stabilized = {e}]
                      ELSE [@ EXCEPT !.original = {e}]]

\* list_media_files: what it yields for the files rglob gives in order
list_media_files(order) ==
    LET file_groups == FileGroups(order)
    IN  [i \in DOMAIN file_groups |->
            LET versions == file_groups[i]
                e == CHOOSE x \in (IF versions.stabilized # {}
                                   THEN versions.stabilized
                                   ELSE versions.original) : TRUE
            IN  [entry |-> e, type |-> MediaType(e)]]

\* the spellings of the stabilized suffixes of a stem
MarkSets ==
    {<<>>, <<"_stabilized">>, <<" stabilized">>, <<"_STABILIZED">>,
     <<"_stabilized", "_stabilized">>}

\* a file of the folder: an original carries a creation_time and a sidecar
\* date, a stabilized file was written later and carries neither
TreeFile(folder, name, marks, ext) ==
    [file |-> [dirs |-> folder, name |-> name, ext |-> ext,
               mtime |-> IF marks = <<>>
                         THEN DateTime(2025, 1, 31, 23, 31, 0)
                         ELSE DateTime(2025, 3, Len(marks), 10, 0, 0),
               ffprobe |-> IF marks = <<>>
                           THEN DateTime(2025, 2, 1, 4, 31, 0) ELSE NoDT,
               sidecar |-> IF marks = <<>>
                           THEN [NoSidecar EXCEPT !.dto =
                                    DateTime(2025, 1, 31, 23, 45, 0)]
                           ELSE NoSidecar],
     marks |-> marks]

\* the folders of at most MaxTree files, all of one name
Trees ==
    UNION {{t \in SUBSET {TreeFile(folder, name, marks, ext) :
                             marks \in MarkSets,
                             ext \in {".mp4", ".MP4", ".jpg"}} :
               Cardinality(t) \in 1..MaxTree} :
           folder \in Folders,
           name \in {[NoName EXCEPT !.pre = "IMG_1"],
                     [pre |-> "IMG_1", date |-> DateDigits, dashed |-> FALSE,
                      sep |-> "_", time |-> TimeDigits]}}

StabilizedInit ==
    /\ groups = {} /\ results = <<>>
    /\ TransferIdle
    /\ OrganizerIdle
    /\ DocIdle
    /\ ToolIdle
    /\ ParseIdle
    /\ tree \in Trees
    /\ listing = <<>>
    /\ resolved = <<>>
    /\ pcS = "list"

\* main: all_files = list(list_media_files(input_root, ...))
ListMedia ==
    /\ pcS = "list"
    /\ \E order \in Orders(tree) : listing' = list_media_files(order)
    /\ pcS' = "resolve"
    /\ UNCHANGED <<tree, resolved, organizerVars, notStabVars>>

\* main: file_date and extract_time_from_file for the next listed file,
\* with the time adjustment of its group
ResolveListed ==
    /\ pcS = "resolve"
    /\ \E adjustments \in {<<>>, [cell |-> PlusOneHour,
                                  drone |-> MinusOneDay]} :
          LET e   == listing[Len(resolved) + 1].entry
              src == source_name(e.file)
          IN  resolved' = Append(resolved,
                 [entry |-> e, adjustments |-> adjustments,
                  d |-> file_date_of(e, tree, src, adjustments),
                  time_str |-> extract_time_of(e, tree, src, adjustments),
                  hops |-> Hops(e, tree)])
    /\ pcS' = IF Len(resolved) + 1 = Len(listing) THEN "done" ELSE "resolve"
    /\ UNCHANGED <<tree, listing, organizerVars, notStabVars>>

StabilizedNext ==
    \/ ListMedia
    \/ ResolveListed

SpecStabilized == StabilizedInit /\ [][StabilizedNext]_vars

-----------------------------------------------------------------------------
(* SpecTools: the external programs file_date runs for one file, some of   *)
(* which may never return                                                  *)
(***************************************************************************)

\* subprocess.check_output(cmd, text=True) of _ffprobe_creation_time
FfprobeCall == [tool |-> "ffprobe", timeout |-> NoTimeout, n |-> 1]

\* the n-th subprocess.run(cmd, ..., timeout=10) of an exiftool lookup
ExiftoolCall(n) == [tool |-> "exiftool", timeout |-> 10, n |-> n]

\* the number of queries an exiftool lookup makes when each of them returns:
\* _exiftool_quicktime_datetime for a drone video,
\* _get_exiftool_datetime_unified for the other files
ExiftoolQueries(p) ==
    IF _path_has_drone_segment(p)
    THEN (IF p.sidecar.primary # "ok" \/ p.sidecar.qt_dto # NoDT
          THEN 1 ELSE 2)
    ELSE Len(exiftool_queries(p))

ToolFiles ==
    [dirs : {<<"cell">>, <<"drone">>}, name : Names, ext : {".mp4", ".jpg"},
     mtime : {DateTime(2025, 1, 31, 23, 31, 0)}, ffprobe : Ffprobes,
     sidecar : SidecarUniverse]

ToolsInit ==
    /\ groups = {} /\ results = <<>>
    /\ TransferIdle
    /\ OrganizerIdle
    /\ DocIdle
    /\ ParseIdle
    /\ StabIdle
    /\ rfile \in ToolFiles
    /\ hung \in SUBSET {"ffprobe", "exiftool"}
    /\ running = NoCall
    /\ pcR = "start"

\* file_date up to its first external program: ffprobe for a drone video
\* (extract_times_for_drone_file, _extract_datetime_with_fallback), exiftool
\* for a non-drone file with no date in its name, none otherwise
ResolveStart ==
    /\ pcR = "start"
    /\ IF _path_has_drone_segment(rfile) /\ ~is_photo(rfile)
       THEN running' = FfprobeCall /\ pcR' = "tool"
       ELSE IF ~_path_has_drone_segment(rfile)
               /\ ~_has_filename_datetime(rfile)
       THEN running' = ExiftoolCall(1) /\ pcR' = "tool"
       ELSE running' = NoCall /\ pcR' = "done"
    /\ UNCHANGED <<rfile, hung, notToolVars>>

\* the external program returns: file_date goes on to the next invocation,
\* or to the steps that run no program
ToolReturns ==
    /\ pcR = "tool"
    /\ running.tool \notin hung
    /\ IF running.tool = "ffprobe"
       THEN IF _ffprobe_creation_time(rfile) = NoDT
               /\ ~_has_filename_datetime(rfile)
            THEN running' = ExiftoolCall(1) /\ pcR' = "tool"
            ELSE running' = NoCall /\ pcR' = "done"
       ELSE IF running.n < ExiftoolQueries(rfile)
            THEN running' = ExiftoolCall(running.n + 1) /\ pcR' = "tool"
            ELSE running' = NoCall /\ pcR' = "done"
    /\ UNCHANGED <<rfile, hung, notToolVars>>

\* the program has not returned within the timeout of the invocation:
\* subprocess.run kills it and raises TimeoutExpired, the lookup returns
\* None, and file_date goes on to the steps that run no program
TimeoutExpires ==
    /\ pcR = "tool"
    /\ running.tool \in hung
    /\ running.timeout # NoTimeout
    /\ running' = NoCall
    /\ pcR' = "done"
    /\ UNCHANGED <<rfile, hung, notToolVars>>

ToolsNext ==
    \/ ResolveStart
    \/ ToolReturns
    \/ TimeoutExpires

\* file_date runs on; a program that is not hung returns; a timeout that is
\* set expires
SpecTools ==
    /\ ToolsInit
    /\ [][ToolsNext]_vars
    /\ WF_vars(ResolveStart)
    /\ WF_vars(ToolReturns)
    /\ WF_vars(TimeoutExpires)

-----------------------------------------------------------------------------
(* transfer_organized_footage.update_placeholder_file_path on the text of  *)
(* a placeholder file                                                      *)
(* A placeholder document is [enc, data, lines].  A JSON placeholder has   *)
(* data, the parsed object: a function from its top-level keys to objects, *)
(* each a function from keys to strings.  A legacy text placeholder has    *)
(* lines: the line [key, value] reads "key: value" and starts at the first *)
(* column; a line with value "" is the bare key.                           *)
(***************************************************************************)

Line(key, value) == [key |-> key, value |-> value]

\* the index of the first line that starts with key + ": ", 0 if there is none
FirstLine(lines, key) ==
    IF \E i \in DOMAIN lines : lines[i].key = key
    THEN CHOOSE i \in DOMAIN lines :
            /\ lines[i].key = key
            /\ \A j \in 1..(i - 1) : lines[j].key # key
    ELSE 0

\* dict.get(key, {}) on a parsed object
GetObject(data, key) == IF key \in DOMAIN data THEN data[key] ELSE <<>>

\* the JSON branch: placeholder_info.original_path and the transfer_info
\* block are set, the object is dumped again
update_json_document(data, new_video_path, now) ==
    LET info  == ("original_path" :> new_video_path)
                    @@ GetObject(data, "placeholder_info")
        tinfo == ("transferred_at" :> now) @@ ("new_location" :> new_video_path)
                    @@ GetObject(data, "transfer_info")
    IN  ("placeholder_info" :> info) @@ ("transfer_info" :> tinfo) @@ data

\* the legacy branch: the first "Original path: " line is replaced and the
\* transfer note is appended to the text
update_txt_document(lines, new_video_path, now) ==
    LET i == FirstLine(lines, "Original path")
        replaced == IF i = 0 THEN lines
                    ELSE [lines EXCEPT ![i] = Line("Original path", new_video_path)]
    IN  replaced \o << Line("=== TRANSFER INFO ===", ""),
                       Line("Transferred on", now),
                       Line("New location", new_video_path) >>

\* an update that writes the file anew from the path alone
update_rewrites_document(d, new_video_path, now) ==
    IF d.enc = "json"
    THEN [d EXCEPT !.data = update_json_document(<<>>, new_video_path, now)]
    ELSE [d EXCEPT !.lines =
             update_txt_document(<< Line("Original path", new_video_path) >>,
                                 new_video_path, now)]

update_placeholder_document(d, new_video_path, now) ==
    IF d.enc = "json"
    THEN [d EXCEPT !.data = update_json_document(@, new_video_path, now)]
    ELSE [d EXCEPT !.lines = update_txt_document(@, new_video_path, now)]

\* extract_original_path_from_placeholder on the text of the file, NoPath
\* when it returns None
extract_original_path_from_document(d) ==
    IF d.enc = "json"
    THEN LET info == GetObject(d.data, "placeholder_info")
         IN  IF "original_path" \in DOMAIN info THEN info["original_path"]
             ELSE "None"
    ELSE LET i == FirstLine(d.lines, "Original path")
         IN  IF i = 0 THEN "None" ELSE d.lines[i].value

\* create_metadata.parse_txt_metadata: each regular expression is searched in
\* the whole text and its first match is taken
FirstValue(lines, key, default) ==
    LET i == FirstLine(lines, key)
    IN  IF i = 0 THEN default ELSE lines[i].value

parse_txt_metadata(lines) ==
    [ source_tag        |-> FirstValue(lines, "SOURCE TAG", "UNKNOWN"),
      hdr_tag           |-> FirstValue(lines, "HDR TAG", "SDR"),
      original_filename |-> FirstValue(lines, "PLACEHOLDER FOR", ""),
      new_path          |-> IF FirstLine(lines, "New location") # 0
                            THEN FirstValue(lines, "New location", "")
                            ELSE FirstValue(lines, "Original path", "") ]

\* ---- the placeholder files and the updates of a run ----
MaxUpdates == 2

NewPaths == {"Footage/clip.mp4", "Footage/clip_001.mp4"}
Nows == {"2025-02-01 10:00:00", "2025-02-02 10:00:00"}

TemplateLines ==
    << Line("PLACEHOLDER FOR", "clip.mp4"),
       Line("Original path", "Footage_raw/clip.mp4"),
       Line("SOURCE TAG", "DRONE"),
       Line("HDR TAG", "HDR"),
       Line("Color Space", "bt2020"),
       Line("Original path", "elsewhere/clip.mp4"),
       Line("New location", "old/clip.mp4") >>

RECURSIVE Pick(_, _, _)
\* the lines of t whose index is in S, in the order of t, from index i on
Pick(t, S, i) ==
    IF i > Len(t) THEN <<>>
    ELSE (IF i \in S THEN <<t[i]>> ELSE <<>>) \o Pick(t, S, i + 1)

TxtDocuments ==
    { [enc |-> "txt", data |-> <<>>, lines |-> Pick(TemplateLines, S, 1)] :
         S \in SUBSET (1..Len(TemplateLines)) }

JsonData ==
    { ("file_info" :> (("name" :> "clip.mp4") @@ ("size_bytes" :> "1000")))
        @@ ("video_metadata" :> ("creation_time" :> "2025-01-31T23:31:00"))
        @@ (IF hasInfo
            THEN "placeholder_info" :>
                    (("original_filename" :> "clip.mp4")
                        @@ ("is_placeholder" :> "true")
                        @@ (IF hasPath
                            THEN "original_path" :> "Footage_raw/clip.mp4"
                            ELSE <<>>))
            ELSE <<>>)
        @@ (IF hasTransfer
            THEN "transfer_info" :>
                    (("new_location" :> "old/clip.mp4") @@ ("note" :> "moved"))
            ELSE <<>>) :
         hasInfo \in BOOLEAN, hasPath \in BOOLEAN, hasTransfer \in BOOLEAN }

JsonDocuments == { [enc |-> "json", data |-> d, lines |-> <<>>] : d \in JsonData }

PlaceholderInit ==
    /\ groups = {} /\ results = <<>>
    /\ TransferIdle
    /\ OrganizerIdle
    /\ ToolIdle
    /\ ParseIdle
    /\ StabIdle
    /\ doc \in TxtDocuments \cup JsonDocuments
    /\ doc0 = doc
    /\ applied = <<>>

\* one call of update_placeholder_file_path(txt_file, new_video_path)
UpdatePlaceholder ==
    /\ Len(applied) < MaxUpdates
    /\ \E new_video_path \in NewPaths, now \in Nows :
          /\ doc' = update_placeholder_document(doc, new_video_path, now)
          /\ applied' = Append(applied, new_video_path)
    /\ UNCHANGED <<doc0, notDocVars>>

PlaceholderNext == UpdatePlaceholder

SpecPlaceholder == PlaceholderInit /\ [][PlaceholderNext]_vars

-----------------------------------------------------------------------------
(* Claims about assign_colors_to_groups (checked under SpecColors)         *)

Injective(f) == \A a, b \in DOMAIN f : a # b => f[a] # f[b]

GroupsPerSource(src) == Cardinality({g \in groups : g.source = src})

\* C4: for a set of at most 18 groups (the palette size) no two different
\* groups of the set receive the same colour, whatever the mix of known,
\* unknown sources and groups per source and whatever the iteration order.
C4_UniqueUpToPalette ==
    \A i \in DOMAIN results :
        Cardinality(groups) <= Len(VALID_COLORS) =>
            /\ DOMAIN results[i] = groups
            /\ Injective(results[i])

\* a full palette: 18 groups, known and unknown sources, a source with three
\* groups, and a colour found by the alternative search (Blue without CANON)
C4_Witness ==
    /\ Len(results) >= 1
    /\ Cardinality(groups) = Len(VALID_COLORS)
    /\ GroupsPerSource("CANON") = 0
    /\ GroupsPerSource("DRONE") = 2
    /\ GroupsPerSource("GOPRO") = 3
    /\ \E g \in groups : g.source \notin Range(KnownSources)
                         /\ results[1][g] = "Blue"

\* C5: the function is total: every group of the input set ends with exactly
\* one colour and that colour is one of VALID_COLORS, for sets of any size.
C5_Total ==
    \A i \in DOMAIN results :
        /\ DOMAIN results[i] = groups
        /\ \A g \in groups : results[i][g] \in Range(VALID_COLORS)

\* more groups than colours: the degraded mode, two groups sharing Sand
C5_Witness ==
    /\ Len(results) >= 1
    /\ Cardinality(groups) > Len(VALID_COLORS)
    /\ \E a, b \in groups : a # b /\ results[1][a] = LastResort
                            /\ results[1][b] = LastResort

\* C6: two runs over the same set of groups return the same mapping,
\* whatever order the set is enumerated in.
C6_Deterministic ==
    Len(results) = 2 => results[1] = results[2]

-----------------------------------------------------------------------------
(* Claims about the transfer program (checked under SpecTransfer)          *)

\* the originals that were on disk when the run started and are gone
DeletedOriginals == {q \in DOMAIN disk0 : q \notin DOMAIN disk}

\* C1: in move mode an original is deleted only if its own copy succeeded and
\* passed the size verification; no original is deleted when any file of the
\* batch failed to copy; deletion starts only after every copy of the batch
\* has been attempted.
C1_SafeDeletion ==
    \A q \in DeletedOriginals :
        /\ ~args.copy
        /\ \E i \in DOMAIN successful_transfers :
              /\ successful_transfers[i].source = q
              /\ successful_transfers[i].dest \in DOMAIN disk
              /\ disk[successful_transfers[i].dest] = disk0[q]
        /\ failed_transfers = <<>>
        /\ Len(successful_transfers) = Len(transfers)
        /\ pcT \in {"delete", "final", "done"}

\* a finished move of a batch of two records that deleted both originals
C1_Witness ==
    /\ pcT = "done"
    /\ Len(transfers) >= 2
    /\ deleted_count = 2
    /\ DeletedOriginals = {RawA, RawB}

\* the placeholder of the record a transfer was made for
OwnPlaceholder(t) == transfers[t.record].txt_file

\* C2: after a successful transfer of a record, that record's own placeholder,
\* and no other record's placeholder, has its original-path field rewritten
\* to the final destination of that record's file.
C2_OwnPlaceholderRewritten ==
    /\ \A i \in DOMAIN successful_transfers :
          extract_original_path_from_placeholder(
              placeholders[OwnPlaceholder(successful_transfers[i])])
            = successful_transfers[i].dest
    /\ \A ph \in DOMAIN placeholders :
          placeholders[ph].notes # <<>> =>
              \E i \in DOMAIN successful_transfers :
                  OwnPlaceholder(successful_transfers[i]) = ph

-----------------------------------------------------------------------------
(* Claims about the organizer and the CSV builder (checked under Spec)     *)

\* where copy_file writes the placeholder of a planned path
PlaceholderOf(out_path) == [out_path EXCEPT !.ext = ".json"]

\* the placeholders written by copy_file that are on disk
JsonOnDisk == {q \in DOMAIN out : q.ext = ".json"}

\* C3: across a batch, distinct source files receive distinct placeholder
\* paths (a later file with the same canonical name in the same bucket gets
\* the next free suffix), no placeholder written for another file is
\* overwritten, and the number of placeholders on disk equals the number of
\* files reported as created.
C3_DistinctPlaceholders ==
    /\ \A i, j \in DOMAIN emitted :
          (i # j /\ emitted[i].ok /\ emitted[j].ok)
             => PlaceholderOf(emitted[i].out_path)
                   # PlaceholderOf(emitted[j].out_path)
    /\ \A i \in DOMAIN emitted :
          emitted[i].ok
             => /\ PlaceholderOf(emitted[i].out_path) \in DOMAIN out
                /\ out[PlaceholderOf(emitted[i].out_path)].orig
                      = OriginalPath(emitted[i].file)
    /\ Cardinality(JsonOnDisk) = created

\* C7: once metadata.csv is built, every video placeholder the organizer
\* wrote has exactly one row in it, whether the placeholder is a .txt or a
\* .json file.
C7_RowPerVideoPlaceholder ==
    pcO = "csv" =>
       \A q \in DOMAIN out :
          (q.ext \in {".txt", ".json"} /\ q.type_root = "video")
             => Cardinality({k \in DOMAIN csv.rows :
                    PlaceholderOf(csv.rows[k].relpath) = PlaceholderOf(q)})
                = 1

\* the datetimes the evidence sources of a file hold, before any adjustment
EvidenceOf(f) ==
    ({extract_times_for_drone_file(f), f.ffprobe, f.sidecar.qt_dto,
      f.sidecar.dto, f.sidecar.qt_cd, f.mtime}
     \cup (IF f.name.time # <<>> THEN {DateTimeOfDigits(f.name)} ELSE {})
     \cup (IF f.name.date # <<>> THEN {DateOfDigits(f.name)} ELSE {}))
    \ {NoDT}

\* C8: when the group of a file has a time delta, the date bucket and the
\* time of day in its name are the calendar date and the clock time of one
\* and the same datetime: the unadjusted datetime of the evidence source it
\* was resolved from, plus the delta (also across midnight or a month end).
C8_DeltaCarriesToDate ==
    \A i \in DOMAIN emitted :
       LET f == emitted[i].file
           q == emitted[i].out_path
       IN  (/\ Lower(source_name(f)) \in DOMAIN time_adjustments
            /\ q.day_dir # NoDate
            /\ ~q.time.keep)
           => \E ev \in EvidenceOf(f) :
                 LET adjusted == apply_time_delta(ev,
                         time_adjustments[Lower(source_name(f))])
                 IN  /\ q.day_dir = DateOf(adjusted)
                     /\ q.time.clock = ClockOf(adjusted)

\* C9: a file outside the drone folders, with no date in its name and no
\* value from any exiftool field, whose mtime lies in 1990..2030, is named
\* and bucketed by that mtime.
C9_MtimeLastResort ==
    \A i \in DOMAIN emitted :
       LET f   == emitted[i].file
           q   == emitted[i].out_path
           adj == apply_adjustment(f.mtime, source_name(f), time_adjustments)
       IN  (/\ ~_path_has_drone_segment(f)
            /\ ~_has_filename_datetime(f)
            /\ f.sidecar = NoSidecar
            /\ YearOf(f.mtime) \in 1990..2030)
           => /\ q.day_dir = DateOf(adj)
              /\ q.time = TimeStr(adj)

\* does some evidence source yield a date for the file: container metadata,
\* a date in the name, an exiftool field, or an mtime within 1990..2030
SomeSourceYieldsDate(f) ==
    \/ f.ffprobe # NoDT
    \/ f.name.date # <<>> /\ DateOfDigits(f.name) # NoDT
    \/ f.sidecar # NoSidecar
    \/ YearOf(f.mtime) \in 1990..2030

\* C10: a file is placed under a YYYY-MM-DD bucket only when some evidence
\* source yielded its date; when none does, it goes to date_non_valide.
C10_NoInventedDate ==
    \A i \in DOMAIN emitted :
       emitted[i].out_path.day_dir # NoDate
          => SomeSourceYieldsDate(emitted[i].file)

-----------------------------------------------------------------------------
(* Claims about the date and time resolvers (checked under SpecResolver)   *)

\* no time adjustment applies to the group of the file
Unadjusted(f) == Lower(source_name(f)) \notin DOMAIN time_adjustments

\* C11: for a file under a drone folder whose container creation time, read
\* as a naive local time, is at most 300 seconds away from its modification
\* time (300 included), the resolver returns the modification time itself,
\* tagged "mtime (metadata appears to be local time)", and without a time
\* adjustment the date bucket and the time of day of the file are those of
\* the modification time.
C11_CloseToMtime ==
    \A i \in DOMAIN emitted :
       LET f == emitted[i].file
       IN  (/\ _path_has_drone_segment(f)
            /\ f.ffprobe # NoDT
            /\ Abs(SecondsBetween(f.ffprobe, f.mtime)) <= 300)
           => /\ extract_times_for_drone_file(f) = f.mtime
              /\ drone_source_tag(f)
                    = "mtime (metadata appears to be local time)"
              /\ Unadjusted(f)
                    => /\ emitted[i].d = DateOf(f.mtime)
                       /\ emitted[i].time_str = TimeStr(f.mtime)
                       /\ emitted[i].out_path.day_dir = DateOf(f.mtime)
                       /\ emitted[i].out_path.time = TimeStr(f.mtime)

\* a drone video whose creation time is exactly 300 seconds after its
\* modification time has been given its placeholder
C11_Witness ==
    \E i \in DOMAIN emitted :
       LET f == emitted[i].file
       IN  /\ _path_has_drone_segment(f)
           /\ ~is_photo(f)
           /\ f.ffprobe # NoDT
           /\ SecondsBetween(f.ffprobe, f.mtime) = 300
           /\ Unadjusted(f)
           /\ emitted[i].ok
           /\ emitted[i].out_path.time = TimeStr(f.mtime)

\* C12: for a file under a drone folder whose container creation time is
\* more than 300 seconds away from its modification time, the resolver
\* returns the creation time taken as UTC and converted to America/Montreal,
\* tagged "converted UTC": four hours earlier for a July instant, five hours
\* earlier for a January instant (so the conversions of one clock time on a
\* July and on a January day are one hour apart), and without a time
\* adjustment the time of day of the file is that of the converted time.
C12_ConvertedUtc ==
    \A i \in DOMAIN emitted :
       LET f     == emitted[i].file
           local == extract_times_for_drone_file(f)
       IN  (/\ _path_has_drone_segment(f)
            /\ f.ffprobe # NoDT
            /\ Abs(SecondsBetween(f.ffprobe, f.mtime)) > 300)
           => /\ local # NoDT
              /\ DateOf(f.ffprobe)[2] = 7
                    => SecondsBetween(local, f.ffprobe) = -4 * 3600
              /\ DateOf(f.ffprobe)[2] \in {1, 2}
                    => SecondsBetween(local, f.ffprobe) = -5 * 3600
              /\ drone_source_tag(f) = "converted UTC from"
              /\ Unadjusted(f) => emitted[i].time_str = TimeStr(local)

\* a drone video tagged 2025-07-15T16:00:00Z with a modification time hours
\* away has been named 12h00m00s
C12_Witness ==
    \E i \in DOMAIN emitted :
       LET f == emitted[i].file
       IN  /\ _path_has_drone_segment(f)
           /\ ~is_photo(f)
           /\ f.ffprobe = DateTime(2025, 7, 15, 16, 0, 0)
           /\ f.mtime = DateTime(2025, 1, 31, 23, 31, 0)
           /\ Unadjusted(f)
           /\ emitted[i].ok
           /\ emitted[i].out_path.time
                 = [keep |-> FALSE, clock |-> <<12, 0, 0>>]
           /\ emitted[i].out_path.day_dir = <<2025, 7, 15>>

\* the date and the time of day a name of the model encodes
EncodedInName(name) ==
    [date  |-> <<ToInt(SubSeq(name.date, 1, 4)),
                 ToInt(SubSeq(name.date, 5, 6)),
                 ToInt(SubSeq(name.date, 7, 8))>>,
     clock |-> <<ToInt(SubSeq(name.time, 1, 2)),
                 ToInt(SubSeq(name.time, 3, 4)),
                 ToInt(SubSeq(name.time, 5, 6))>>]

\* C13: for a file outside the drone folders whose name contains
\* YYYYMMDD_HHMMSS or fourteen contiguous digits that encode a valid date of
\* 1990..2030 and a valid time, and with no time adjustment configured, the
\* date bucket and the time of day are those the name encodes, and neither
\* file_date nor extract_time_from_file runs an external program.
C13_FilenameWins ==
    \A i \in DOMAIN emitted :
       LET f == emitted[i].file
       IN  (/\ ~_path_has_drone_segment(f)
            /\ f.name.date # <<>> /\ ~f.name.dashed /\ f.name.time # <<>>
            /\ DateTimeOfDigits(f.name) # NoDT
            /\ EncodedInName(f.name).date[1] \in 1990..2030
            /\ time_adjustments = <<>>)
           => /\ emitted[i].d = EncodedInName(f.name).date
              /\ emitted[i].time_str
                    = [keep |-> FALSE, clock |-> EncodedInName(f.name).clock]
              /\ file_date_tools(f) = {}
              /\ extract_time_tools(f) = {}

\* the spellings of the names of DRONE_FOLDERS among the folder names of the
\* model
AllowListSpellings == {"drone", "DRONE", "Drone", "dji", "Mini4", "mavic"}

\* C14: a file is drone-classified exactly when one of the folders of its
\* path is, whatever the case, a name of the drone allow-list (a folder that
\* only contains such a name does not count), and a file with no such folder
\* gets the date and the time of the non-drone chain: exiftool if the name
\* has no date, else the name, else the modification time, and never the
\* container creation time.
C14_ExactSegment ==
    \A i \in DOMAIN emitted :
       LET f     == emitted[i].file
           src   == source_name(f)
           exact == \E k \in DOMAIN f.dirs : f.dirs[k] \in AllowListSpellings
       IN  /\ _path_has_drone_segment(f) <=> exact
           /\ exact /\ f.ffprobe # NoDT
                 => emitted[i].time_str
                       = TimeStr(apply_adjustment(
                            IF Abs(SecondsBetween(f.ffprobe, f.mtime)) <= 300
                            THEN f.mtime ELSE AsTimezone(f.ffprobe),
                            src, time_adjustments))
           /\ ~exact
                 => /\ emitted[i].time_str
                          = FilenameOrMtimeTime(f, src, time_adjustments)
                    /\ emitted[i].d
                          = IF /\ ~_has_filename_datetime(f)
                               /\ _get_exiftool_datetime_unified(f) # NoDT
                            THEN DateOf(apply_adjustment(
                                    _get_exiftool_datetime_unified(f),
                                    src, time_adjustments))
                            ELSE FilenameOrMtimeDate(f, src, time_adjustments)

\* a video with a creation time in the folder "dronevideos", resolved from
\* its name, and never from the creation time
C14_Witness ==
    \E i \in DOMAIN emitted :
       LET f == emitted[i].file
       IN  /\ f.dirs = <<"dronevideos">>
           /\ f.ffprobe # NoDT
           /\ f.name.pre = "IMG_1" /\ f.name.date # <<>>
           /\ time_adjustments = <<>>
           /\ emitted[i].ok
           /\ emitted[i].out_path.day_dir = <<2025, 1, 31>>
           /\ emitted[i].out_path.time
                 = [keep |-> FALSE, clock |-> <<23, 30, 0>>]

-----------------------------------------------------------------------------
(* More claims about the transfer program (checked under SpecTransfer)     *)

\* how many placeholders the analysis loop has gone through
AnalysedCount ==
    IF pcT = "start" THEN 0
    ELSE IF pcT = "analyse" THEN idx - 1
    ELSE Len(placeholder_files)

\* C15: a placeholder whose declared original does not exist is recorded in
\* missing_files and gets no transfer record; every placeholder whose
\* original exists gets one, every transfer record is attempted once the
\* transfer loop has run, and a run in which no copy failed ends with exit
\* code 0 whatever the number of missing files.
C15_MissingSkipped ==
    /\ pcT = "analyse" =>
          \A k \in 1..AnalysedCount :
             LET ph   == placeholder_files[k]
                 orig == placeholders[ph].orig
                 sent == \E r \in DOMAIN transfers :
                            /\ transfers[r].txt_file = ph
                            /\ transfers[r].source = orig
             IN  /\ (orig # NoPath /\ orig \notin DOMAIN disk)
                       => /\ <<orig, ph>> \in Range(missing_files)
                          /\ ~sent
                 /\ orig \in DOMAIN disk => sent
    /\ pcT \in {"delete", "final"} =>
          \A r \in DOMAIN transfers :
             \E t \in Range(successful_transfers) \cup Range(failed_transfers) :
                t.record = r
    /\ (pcT = "done" /\ dirs.root /\ dirs.organized
           /\ failed_transfers = <<>>) => exit_code = 0

\* a finished run with a missing original in which the other records were
\* all transferred
C15_Witness ==
    /\ pcT = "done"
    /\ missing_files # <<>>
    /\ transfers # <<>>
    /\ Len(successful_transfers) = Len(transfers)
    /\ exit_code = 0

\* C16: when the size check after a copy fails, copy_with_verification
\* returns False and leaves the disk as it was, the destination copy removed
\* and the original untouched; the step of the transfer loop that records a
\* failed transfer leaves every placeholder and the original as they were
\* and goes on to the next record.
C16_SizeCheckFailure ==
    [][(pcT = "transfer" /\ idx <= Len(transfers)) =>
          LET t         == transfers[idx]
              dest_path == UniqueDest(disk, t.dest, 1)
              copied    == copy_with_verification(disk, t.source, dest_path,
                                                  "mismatch")
          IN  /\ ~copied.ok
              /\ dest_path \notin DOMAIN copied.disk
              /\ copied.disk = disk
              /\ failed_transfers' # failed_transfers =>
                    /\ failed_transfers' = Append(failed_transfers,
                          [source |-> t.source, dest |-> dest_path,
                           txt_file |-> t.txt_file, record |-> idx])
                    /\ successful_transfers' = successful_transfers
                    /\ placeholders' = placeholders
                    /\ t.source \in DOMAIN disk'
                    /\ disk'[t.source] = disk[t.source]
                    /\ idx' = idx + 1
                    /\ pcT' = "transfer"]_vars

\* a record failed, its destination is not on disk, its original is, and a
\* later record of the batch was copied
C16_Witness ==
    \E i \in DOMAIN failed_transfers, j \in DOMAIN successful_transfers :
       /\ failed_transfers[i].record < successful_transfers[j].record
       /\ failed_transfers[i].dest \notin DOMAIN disk
       /\ failed_transfers[i].source \in DOMAIN disk
       /\ placeholders[failed_transfers[i].txt_file].notes = <<>>

\* C19: with --copy every original that was on disk when the run started is
\* still there with its content; with --verify-only nothing is copied, no
\* file is added, removed or changed, and no placeholder is rewritten.
C19_OriginalsUntouched ==
    /\ args.copy =>
          \A q \in DOMAIN disk0 : q \in DOMAIN disk /\ disk[q] = disk0[q]
    /\ args.verify_only =>
          /\ disk = disk0
          /\ successful_transfers = <<>>
          /\ failed_transfers = <<>>
          /\ deleted_count = 0
          /\ \A ph \in DOMAIN placeholders : placeholders[ph].notes = <<>>

\* a finished --copy run that copied two files and kept both originals
C19_Witness ==
    /\ pcT = "done"
    /\ args.copy /\ ~args.verify_only
    /\ Len(successful_transfers) = 2
    /\ {RawA, RawB} \subseteq DOMAIN disk
    /\ \A i \in DOMAIN successful_transfers :
          successful_transfers[i].dest \in DOMAIN disk

-----------------------------------------------------------------------------
(* Claims about update_placeholder_file_path (checked under                *)
(* SpecPlaceholder)                                                        *)
(***************************************************************************)

\* the lines and keys that hold the path or location of the media file
PathLineKeys == {"Original path"}
TransferNoteKeys == {"=== TRANSFER INFO ===", "Transferred on", "New location"}
PathKeysOfObject(key) ==
    IF key = "placeholder_info" THEN {"original_path"}
    ELSE IF key = "transfer_info" THEN {"transferred_at", "new_location"}
    ELSE {}

\* a text placeholder keeps every line it had, a replaced "Original path: "
\* line apart, and gains only lines of the transfer note; the fields
\* create_metadata reads from it, the path apart, are the same
TxtKeepsOtherFields ==
    /\ Len(doc.lines) = Len(doc0.lines) + (3 * Len(applied))
    /\ \A k \in DOMAIN doc0.lines :
          \/ doc.lines[k] = doc0.lines[k]
          \/ /\ doc0.lines[k].key \in PathLineKeys
             /\ doc.lines[k].key = doc0.lines[k].key
    /\ \A k \in DOMAIN doc.lines :
          k > Len(doc0.lines) => doc.lines[k].key \in TransferNoteKeys
    /\ \A field \in {"source_tag", "hdr_tag", "original_filename"} :
          parse_txt_metadata(doc.lines)[field] = parse_txt_metadata(doc0.lines)[field]

\* a JSON placeholder keeps every object and every key it had with the same
\* value, the path keys apart, and gains only path keys
JsonKeepsOtherFields ==
    /\ DOMAIN doc0.data \subseteq DOMAIN doc.data
    /\ DOMAIN doc.data \subseteq
          (DOMAIN doc0.data \cup {"placeholder_info", "transfer_info"})
    /\ \A key \in DOMAIN doc.data :
          LET before == GetObject(doc0.data, key)
              after  == doc.data[key]
          IN  /\ DOMAIN before \subseteq DOMAIN after
              /\ DOMAIN after \subseteq (DOMAIN before \cup PathKeysOfObject(key))
              /\ \A sub \in DOMAIN before \ PathKeysOfObject(key) :
                    after[sub] = before[sub]

\* C20: after any number of updates of a placeholder, in either encoding,
\* every field other than the path/location information (the
\* "Original path" line or placeholder_info.original_path, and the added
\* transfer-info block) reads back as it was before the first update.
C20_OnlyPathChanges ==
    /\ doc.enc = doc0.enc
    /\ doc.enc = "txt" => TxtKeepsOtherFields
    /\ doc.enc = "json" => JsonKeepsOtherFields

\* a complete text placeholder has been updated twice, with two different
\* paths, and now names the second one
C20_Witness ==
    /\ Len(applied) = 2
    /\ applied[1] # applied[2]
    /\ doc0.enc = "txt"
    /\ doc0.lines = Pick(TemplateLines, 1..5, 1)
    /\ extract_original_path_from_document(doc) = applied[2]
    /\ doc.lines # doc0.lines

-----------------------------------------------------------------------------
(* Claims about exit codes, --simulate and --dry-run (checked under        *)
(* SpecModes)                                                              *)
(***************************************************************************)

\* C17: each program, once it has ended, has exit code 0 after a run in
\* which nothing failed and a non-zero exit code when a directory it
\* requires is absent (the project root and Footage_raw for the organizer,
\* the project root and Footage_metadata_sorted for create_metadata and for
\* the transfer program); the transfer program also has a non-zero exit
\* code when a copy failed.
C17_ExitStatus ==
    /\ exit_o # NoExit =>
          IF ProjectRoot \notin odirs \/ FootageRawDir \notin odirs
          THEN exit_o # 0
          ELSE failed = 0 => exit_o = 0
    /\ exit_m # NoExit =>
          IF ProjectRoot \notin odirs \/ OutputRoot \notin odirs
          THEN exit_m # 0
          ELSE exit_m = 0
    /\ exit_code # NoExit =>
          IF ~dirs.root \/ ~dirs.organized THEN exit_code # 0
          ELSE IF failed_transfers # <<>> THEN exit_code # 0
          ELSE exit_code = 0

\* C18: a step of the organizer under --simulate decides the bucket and
\* the name of the file and counts it, a run of create_metadata under
\* --dry-run computes the groups and their colors, and neither changes the
\* directories, the placeholders or metadata.csv.
C18_ModesWriteNothing ==
    [][ /\ (pcO \in {"start", "loop"} /\ oargs.simulate) =>
              /\ out' = out /\ odirs' = odirs /\ csv' = csv
              /\ pcO = "loop" =>
                    /\ Len(emitted') = Len(emitted) + 1
                    /\ created' = created + 1
        /\ (pcO = "done" /\ oargs.dry_run) =>
              /\ out' = out /\ odirs' = odirs /\ csv' = csv
              /\ ({ProjectRoot, OutputRoot} \subseteq odirs
                     /\ \E q \in TxtFiles(out) : Parses(out[q])) =>
                    /\ Len(results') = Len(results) + 1
                    /\ groups' # {}
      ]_vars

\* both programs have run, with --simulate and --dry-run, on a project
\* that holds media files and a text placeholder: a file was counted as
\* created, the colors were assigned, and there is neither a new
\* placeholder, nor a Footage directory, nor a metadata.csv
C18_Witness ==
    /\ oargs.simulate /\ oargs.dry_run
    /\ pcO = "csv"
    /\ created >= 1
    /\ results # <<>>
    /\ DOMAIN out = {LegacyTxtPath}
    /\ FootageDir \notin odirs
    /\ csv = NoCsv

\* C21: metadata.csv holds rows for video placeholders only: no row of it
\* comes from a placeholder under the photo type-root of
\* Footage_metadata_sorted.
C21_NoPhotoRows ==
    csv.written =>
        \A i \in DOMAIN csv.rows : csv.rows[i].relpath.type_root # "photo"

-----------------------------------------------------------------------------
(* Claims about the exiftool lookup (checked under SpecSidecar)            *)
(***************************************************************************)

\* the value of the first of QuickTime:DateTimeOriginal, DateTimeOriginal
\* and QuickTime:CreationDate that the file has, NoDT if it has none
FirstSidecarValue(f) ==
    IF f.sidecar.qt_dto # NoDT THEN f.sidecar.qt_dto
    ELSE IF f.sidecar.dto # NoDT THEN f.sidecar.dto
    ELSE f.sidecar.qt_cd

\* the status that names the field the value was read from
StatusOfFirstField(f) ==
    IF f.sidecar.qt_dto # NoDT THEN "SUCCESS"
    ELSE IF f.sidecar.dto # NoDT THEN "SUCCESS (DateTimeOriginal fallback)"
    ELSE "SUCCESS (QuickTime:CreationDate fallback)"

\* C22: for a file outside the drone folders with no date in its name, the
\* exiftool lookup returns the value of the first of
\* QuickTime:DateTimeOriginal, DateTimeOriginal, QuickTime:CreationDate that
\* has one, with the status naming that field, and the file is dated and
\* timed by it; whenever the first query gives no value the second field
\* is queried.
C22_SidecarOrder ==
    \A i \in DOMAIN emitted :
       LET f == emitted[i].file
           v == FirstSidecarValue(f)
           adj == apply_adjustment(v, source_name(f), time_adjustments)
       IN  (~_path_has_drone_segment(f) /\ ~_has_filename_datetime(f))
           => /\ _get_exiftool_datetime_unified(f) = v
              /\ f.sidecar.qt_dto = NoDT
                    => "DateTimeOriginal" \in Range(exiftool_queries(f))
              /\ v # NoDT
                    => /\ exiftool_status(f) = StatusOfFirstField(f)
                       /\ emitted[i].d = DateOf(adj)
                       /\ emitted[i].time_str = TimeStr(adj)

-----------------------------------------------------------------------------
(* More claims about assign_colors_to_groups (checked under SpecColors)    *)
(***************************************************************************)

-----------------------------------------------------------------------------
(* Claims about the steps of create_metadata (checked under SpecMetadata)  *)
(***************************************************************************)

\* C24: in a run of create_metadata, assign_colors_to_groups is called at
\* most once, and once when the run ends after parsing; when it is called
\* every placeholder has been parsed and the group of every row is in the
\* group set; before the call no row has a clip_color; after it every row
\* has the colour the call gave its group, so rows of one group_name carry
\* one clip_color.
C24_ColoursOnceAfterParsing ==
    /\ Len(results) <= 1
    /\ (pcO \in {"write", "csv"} /\ TxtFiles(out) # {}) => Len(results) = 1
    /\ Len(results) = 0 =>
          \A i \in DOMAIN metadata_rows :
             metadata_rows[i].clip_color = NoColor
    /\ Len(results) = 1 =>
          /\ txt_files = <<>>
          /\ Cardinality({q \in TxtFiles(out) : Parses(out[q])})
                = Len(metadata_rows)
          /\ DOMAIN results[1] = groups
          /\ \A i \in DOMAIN metadata_rows :
                /\ metadata_rows[i].group_name \in groups
                /\ metadata_rows[i].clip_color
                      = results[1][metadata_rows[i].group_name]
          /\ \A i, j \in DOMAIN metadata_rows :
                metadata_rows[i].group_name = metadata_rows[j].group_name
                   => metadata_rows[i].clip_color = metadata_rows[j].clip_color

\* metadata.csv has been written from three placeholders: two rows of one
\* group with one colour and a row of another group with another colour
C24_Witness ==
    /\ pcO = "csv"
    /\ csv.written
    /\ Len(csv.rows) = 3
    /\ Cardinality(groups) = 2
    /\ \E i, j \in DOMAIN csv.rows :
          /\ i # j
          /\ csv.rows[i].group_name = csv.rows[j].group_name
          /\ csv.rows[i].clip_color = csv.rows[j].clip_color
          /\ csv.rows[i].clip_color # NoColor
    /\ \E i, j \in DOMAIN csv.rows :
          csv.rows[i].clip_color # csv.rows[j].clip_color

-----------------------------------------------------------------------------
\* C25: no parse failure of a resolver step, the parsing of a configured
\* time-delta string included, gets out of file_date or
\* extract_time_from_file or ends the run: a run that has listed its files
\* ends only when it has processed every one of them.
C25_ParseFailuresAbsorbed ==
    pcO = "done" => Len(emitted) = Len(all_files)

-----------------------------------------------------------------------------
\* C26: every invocation of an external program is bounded by a timeout, so
\* the resolution of the date of each file completes even when ffprobe or
\* exiftool never returns.
C26_ResolutionCompletes == <>(pcR = "done")

-----------------------------------------------------------------------------
\* the string has the shape [+|-]YYYYMMDD_HHMMSS
HasDeltaShape(str) ==
    /\ Len(str) = 16
    /\ str[1] \in {"+", "-"}
    /\ str[10] = "_"
    /\ \A i \in (2..9) \cup (11..16) :
          \E k \in DOMAIN DigitChars : DigitChars[k] = str[i]

\* "+00010000_000000", of which the docstring says "Add 1 day"
DocAddOneDay ==
    <<"+", "0", "0", "0", "1", "0", "0", "0", "0", "_",
      "0", "0", "0", "0", "0", "0">>

\* "-00000000_020000", of which the docstring says "Subtract 2 hours"
DocSubtractTwoHours ==
    <<"-", "0", "0", "0", "0", "0", "0", "0", "0", "_",
      "0", "2", "0", "0", "0", "0">>

\* C27: parse_time_delta maps a string of the shape [+|-]YYYYMMDD_HHMMSS to
\* (s*(YYYY*365 + MM*30 + DD), s*(HH*3600 + MM*60 + SS)) and rejects every
\* other string; "+00010000_000000" is 1 day and "-00000000_020000" is minus
\* 2 hours.
C27_ParseTimeDelta ==
    parse_result.called =>
        IF HasDeltaShape(delta_in)
        THEN LET s == IF delta_in[1] = "+" THEN 1 ELSE -1
             IN  /\ ~parse_result.raised
                 /\ parse_result.days =
                       s * (ToInt(SubSeq(delta_in, 2, 5)) * 365
                            + ToInt(SubSeq(delta_in, 6, 7)) * 30
                            + ToInt(SubSeq(delta_in, 8, 9)))
                 /\ parse_result.seconds =
                       s * (ToInt(SubSeq(delta_in, 11, 12)) * 3600
                            + ToInt(SubSeq(delta_in, 13, 14)) * 60
                            + ToInt(SubSeq(delta_in, 15, 16)))
                 /\ (delta_in = DocAddOneDay =>
                        parse_result.days = 1 /\ parse_result.seconds = 0)
                 /\ (delta_in = DocSubtractTwoHours =>
                        parse_result.days = 0 /\ parse_result.seconds = -7200)
        ELSE parse_result.raised

-----------------------------------------------------------------------------
\* the file the hops from a stabilized file end at: its original, or the
\* original of its original when that one is a stabilized file whose
\* original exists too (a stem of the model carries at most two suffixes)
EndOfHops(e) ==
    LET o == CHOOSE x \in OriginalFile(e, tree) : TRUE
    IN  IF OriginalFile(o, tree) # {}
        THEN CHOOSE x \in OriginalFile(o, tree) : TRUE
        ELSE o

\* C28: for a file X_stabilized.ext whose sibling X.ext exists, file_date and
\* extract_time_from_file return what they return for X.ext, the adjustment
\* of the group applied once, and the hops to the original are at most as
\* many as the suffixes of the stem.
C28_StabilizedUsesOriginal ==
    \A i \in DOMAIN resolved :
        LET r == resolved[i]
            src == source_name(r.entry.file)
        IN  OriginalFile(r.entry, tree) # {} =>
               /\ r.d = file_date(EndOfHops(r.entry).file, src,
                                  r.adjustments)
               /\ r.time_str = extract_time_from_file(
                                  EndOfHops(r.entry).file, src,
                                  r.adjustments)
               /\ r.hops \in 1..Len(r.entry.marks)

\* a stabilized file is dated and timed by its original, with a time
\* adjustment, where its own timestamps give another date and time; and a
\* twice-stabilized file is resolved in two hops
C28_Witness ==
    /\ \E i \in DOMAIN resolved :
          LET r == resolved[i]
              src == source_name(r.entry.file)
          IN  /\ OriginalFile(r.entry, tree) # {}
              /\ r.adjustments # <<>>
              /\ r.d # file_date(r.entry.file, src, r.adjustments)
              /\ r.time_str # extract_time_from_file(r.entry.file, src,
                                                     r.adjustments)
    /\ \E i \in DOMAIN resolved : resolved[i].hops = 2

-----------------------------------------------------------------------------
\* how many times list_media_files has yielded the file
TimesListed(e) == Cardinality({i \in DOMAIN listing : listing[i].entry = e})

\* a listed stabilized file of the same directory, base name and extension
\* (up to the case of the extension)
StabilizedSiblingListed(e) ==
    \E i \in DOMAIN listing :
        LET x == listing[i].entry
        IN  /\ IsStabilized(x)
            /\ x.file.dirs = e.file.dirs
            /\ x.file.name = e.file.name
            /\ Front(x.marks) = e.marks
            /\ Lower(x.file.ext) = Lower(e.file.ext)

\* C29: list_media_files yields every file with a matching extension exactly
\* once, with the type its extension gives, except an original whose
\* stabilized sibling is yielded in its place.
C29_ListedOnceOrReplaced ==
    pcS \in {"resolve", "done"} =>
        \A e \in {x \in tree : MediaType(x) # ""} :
            \/ /\ TimesListed(e) = 1
               /\ \A i \in DOMAIN listing :
                     listing[i].entry = e => listing[i].type = MediaType(e)
            \/ /\ TimesListed(e) = 0
               /\ ~IsStabilized(e)
               /\ StabilizedSiblingListed(e)

-----------------------------------------------------------------------------
\* the records the transfer loop adds in a step
NewTransferRecords ==
    {successful_transfers'[i] :
        i \in DOMAIN successful_transfers' \ DOMAIN successful_transfers}
    \cup {failed_transfers'[i] :
             i \in DOMAIN failed_transfers' \ DOMAIN failed_transfers}

\* C30: an iteration of the transfer loop copies onto a path that does not
\* exist, reached after at most as many renamings as there are files, and
\* leaves every file already under Footage/ as it was.
C30_NeverOverwrites ==
    [][(pcT = "transfer" /\ idx' = idx + 1) =>
          /\ \A q \in DOMAIN disk :
                q.dir = "Footage" => q \in DOMAIN disk' /\ disk'[q] = disk[q]
          /\ \A r \in NewTransferRecords :
                /\ r.dest \notin DOMAIN disk
                /\ Len(r.dest.tags) <= Cardinality(DOMAIN disk)]_vars

\* two records of one batch had the same computed destination, which also
\* existed before the run with another content: both were copied, the
\* second under a name renamed twice, and the old file is still there
C30_Witness ==
    /\ \E i, j \in DOMAIN successful_transfers :
          /\ i < j
          /\ transfers[successful_transfers[i].record].dest
                = transfers[successful_transfers[j].record].dest
          /\ successful_transfers[i].dest # successful_transfers[j].dest
          /\ Len(successful_transfers[j].dest.tags) = 2
          /\ successful_transfers[j].dest \in DOMAIN disk
          /\ disk[successful_transfers[j].dest] # disk0[FootA]
    /\ FootA \in DOMAIN disk0
    /\ FootA \in DOMAIN disk
    /\ disk[FootA] = disk0[FootA]


====
